---- MODULE Spec2Model ----
(***************************************************************************)
(* Model of cypress-console-spy: the Monitor (src/src/client.js) and the   *)
(* Aggregator (src/src/server.js).                                         *)
(*                                                                         *)
(* JavaScript strings are modelled as sequences of tokens (a token stands  *)
(* for a run of characters: "known", " ", "warning"), so that substring    *)
(* containment, concatenation and trim are computed, not assumed.          *)
(* An optional value (a key that may be absent from an object) is a        *)
(* sequence of length at most one: <<>> is "absent", <<v>> is "set to v".  *)
(***************************************************************************)
EXTENDS Integers, Sequences, FiniteSets, TLC

(***************************************************************************)
(* Optional values and string helpers.                                     *)
(***************************************************************************)
None == <<>>

Some(v) == <<v>>

IsSet(o) == o # <<>>

\* `a || b` on an optional object / `a ?? b` on an optional value
OrElse(o, d) == IF IsSet(o) THEN o[1] ELSE d

SP == " "

\* String.prototype.includes
Includes(s, p) ==
    \E i \in 0..(Len(s) - Len(p)) : SubSeq(s, i + 1, i + Len(p)) = p

StartsWith(s, p) == Len(p) <= Len(s) /\ SubSeq(s, 1, Len(p)) = p

RECURSIVE TrimLeft(_)
TrimLeft(s) == IF s # <<>> /\ Head(s) = SP THEN TrimLeft(Tail(s)) ELSE s

RECURSIVE TrimRight(_)
TrimRight(s) ==
    IF s # <<>> /\ s[Len(s)] = SP THEN TrimRight(SubSeq(s, 1, Len(s) - 1)) ELSE s

\* String.prototype.trim
Trim(s) == TrimRight(TrimLeft(s))

\* Array.prototype.join over an array of strings
RECURSIVE Join(_, _)
Join(ss, sep) ==
    IF ss = <<>> THEN <<>>
    ELSE IF Len(ss) = 1 THEN ss[1]
    ELSE ss[1] \o sep \o Join(Tail(ss), sep)

\* Concatenation of an array of arrays (spread of several arrays into one)
RECURSIVE Flatten(_)
Flatten(ss) == IF ss = <<>> THEN <<>> ELSE ss[1] \o Flatten(Tail(ss))

RECURSIVE SelectSeqIdx(_, _, _)
SelectSeqIdx(s, keep, i) ==
    IF i > Len(s) THEN <<>>
    ELSE (IF i \in keep THEN <<s[i]>> ELSE <<>>) \o SelectSeqIdx(s, keep, i + 1)

(***************************************************************************)
(* Console arguments.  A value passed to a console method is a string, the *)
(* value null, an Error instance or a plain object with a message.         *)
(***************************************************************************)
StrArg(s) == [k |-> "str", name |-> <<>>, msg |-> s]

NullArg == [k |-> "null", name |-> <<>>, msg |-> <<>>]

ErrArg(n, m) == [k |-> "err", name |-> n, msg |-> m]

ObjArg(n, m) == [k |-> "obj", name |-> n, msg |-> m]

\* messageToString applied to one (non-array) value
messageToString1(a) ==
    CASE a.k = "null" -> <<"null">>
      [] a.k = "err" ->
            LET parts == (IF a.name # <<>> /\ a.name # <<"Error">>
                             THEN <<a.name \o <<":">>>> ELSE <<>>)
                         \o (IF a.msg # <<>> THEN <<a.msg>> ELSE <<>>)
            IN IF parts # <<>> THEN Join(parts, <<SP>>)
               ELSE (IF a.name # <<>> THEN a.name ELSE <<"Error">>)
      [] a.k = "obj" ->
            IF a.msg # <<>>
            THEN (IF a.name # <<>> THEN a.name \o <<":", SP>> ELSE <<>>) \o a.msg
            ELSE IF a.name # <<>> THEN <<"{name:">> \o a.name \o <<"}">>
            ELSE <<"{}">>
      [] OTHER -> a.msg

\* messageToString applied to the argument array of a call
messageToString(args) ==
    Join([i \in 1..Len(args) |-> messageToString1(args[i])], <<SP>>)

\* The rawMessage collectSpyCalls builds from the arguments of one call
RECURSIVE RawConcat(_)
RawConcat(args) ==
    IF args = <<>> THEN <<>>
    ELSE LET a == Head(args)
             piece ==
                CASE a.k = "err" ->
                        (IF a.name # <<>> THEN a.name \o <<":", SP>> ELSE <<>>)
                        \o a.msg \o <<SP>>
                  [] a.k = "str" -> a.msg \o <<SP>>
                  [] a.k = "obj" /\ a.msg # <<>> ->
                        (IF a.name # <<>> THEN a.name \o <<":", SP>> ELSE <<>>)
                        \o a.msg \o <<SP>>
                  [] a.k = "null" -> <<>>
                  [] OTHER -> messageToString1(a) \o <<SP>>
         IN piece \o RawConcat(Tail(args))

RawMessageOf(args) == Trim(RawConcat(args))

getIssueType(method) ==
    IF method = "error" THEN "error"
    ELSE IF method = "warn" THEN "warn"
    ELSE "info"

(***************************************************************************)
(* Configuration.                                                          *)
(***************************************************************************)
defaultConfig ==
    [failOnSpy |-> TRUE, logToFile |-> TRUE, methodsToTrack |-> <<"error">>,
     throwOnWarning |-> FALSE, whitelist |-> <<>>, debug |-> FALSE]

\* An object with no key set: {}
EmptyPartial ==
    [failOnSpy |-> None, logToFile |-> None, methodsToTrack |-> None,
     throwOnWarning |-> None, whitelist |-> None, debug |-> None]

\* { ...base, ...over } where base has every key set
SpreadOver(base, over) ==
    [failOnSpy |-> OrElse(over.failOnSpy, base.failOnSpy),
     logToFile |-> OrElse(over.logToFile, base.logToFile),
     methodsToTrack |-> OrElse(over.methodsToTrack, base.methodsToTrack),
     throwOnWarning |-> OrElse(over.throwOnWarning, base.throwOnWarning),
     whitelist |-> OrElse(over.whitelist, base.whitelist),
     debug |-> OrElse(over.debug, base.debug)]

\* const config = { ...defaultConfig, ...customConfig }
GlobalConfig(customConfig) == SpreadOver(defaultConfig, customConfig)

\* The config object of a describe/it declaration: the reserved key
\* consoleDaemon (optional) and a stray failOnSpy placed beside it.
NoDecl == [consoleDaemon |-> None, failOnSpy |-> None]

Decl(cd) == [consoleDaemon |-> Some(cd), failOnSpy |-> None]

getMergedConfig_TopLevelKeys(cfg, testConfig, describeConfigForTest) ==
    LET describeConsoleDaemon ==
            [OrElse(describeConfigForTest.consoleDaemon, EmptyPartial)
                EXCEPT !.failOnSpy =
                    IF IsSet(@) THEN @ ELSE describeConfigForTest.failOnSpy]
        testConsoleDaemon ==
            [OrElse(testConfig.consoleDaemon, EmptyPartial)
                EXCEPT !.failOnSpy = IF IsSet(@) THEN @ ELSE testConfig.failOnSpy]
        mergedWhitelist ==
            cfg.whitelist \o OrElse(describeConsoleDaemon.whitelist, <<>>)
                          \o OrElse(testConsoleDaemon.whitelist, <<>>)
    IN [SpreadOver(SpreadOver(SpreadOver(defaultConfig,
            [f \in DOMAIN cfg |-> Some(cfg[f])]), describeConsoleDaemon),
            testConsoleDaemon)
        EXCEPT !.whitelist = mergedWhitelist]

getMergedConfig_SuiteWins(cfg, testConfig, describeConfigForTest) ==
    LET describeConsoleDaemon ==
            OrElse(describeConfigForTest.consoleDaemon, EmptyPartial)
        testConsoleDaemon == OrElse(testConfig.consoleDaemon, EmptyPartial)
        mergedWhitelist ==
            cfg.whitelist \o OrElse(describeConsoleDaemon.whitelist, <<>>)
                          \o OrElse(testConsoleDaemon.whitelist, <<>>)
    IN [SpreadOver(SpreadOver(SpreadOver(defaultConfig,
            [f \in DOMAIN cfg |-> Some(cfg[f])]), testConsoleDaemon),
            describeConsoleDaemon)
        EXCEPT !.whitelist = mergedWhitelist]

getMergedConfig_WhitelistReplaced(cfg, testConfig, describeConfigForTest) ==
    LET describeConsoleDaemon ==
            OrElse(describeConfigForTest.consoleDaemon, EmptyPartial)
        testConsoleDaemon == OrElse(testConfig.consoleDaemon, EmptyPartial)
    IN SpreadOver(SpreadOver(SpreadOver(defaultConfig,
            [f \in DOMAIN cfg |-> Some(cfg[f])]), describeConsoleDaemon),
            testConsoleDaemon)

\* getMergedConfig(testConfig, describeConfigForTest), with the closure
\* variable config passed as cfg
getMergedConfig(cfg, testConfig, describeConfigForTest) ==
    LET describeConsoleDaemon ==
            OrElse(describeConfigForTest.consoleDaemon, EmptyPartial)
        testConsoleDaemon == OrElse(testConfig.consoleDaemon, EmptyPartial)
        mergedWhitelist ==
            cfg.whitelist \o OrElse(describeConsoleDaemon.whitelist, <<>>)
                          \o OrElse(testConsoleDaemon.whitelist, <<>>)
        spread ==
            SpreadOver(SpreadOver(SpreadOver(defaultConfig,
                [f \in DOMAIN cfg |-> Some(cfg[f])]), describeConsoleDaemon),
                testConsoleDaemon)
    IN [spread EXCEPT
            !.whitelist = mergedWhitelist,
            !.debug = OrElse(testConsoleDaemon.debug,
                        OrElse(describeConsoleDaemon.debug, cfg.debug))]


(***************************************************************************)
(* Issues, whitelist matching and the filter of checkConsoleErrors.        *)
(***************************************************************************)
\* A whitelist entry: a string (re = FALSE) or a RegExp without the g/y
\* flags, either /src/ or /^src/
StrEntry(s) == [re |-> FALSE, anchored |-> FALSE, src |-> s]

ReEntry(anch, s) == [re |-> TRUE, anchored |-> anch, src |-> s]

\* RegExp.prototype.test
RegExpTest(pattern, message) ==
    IF pattern.anchored THEN StartsWith(message, pattern.src)
    ELSE Includes(message, pattern.src)

Issue(type, message, rawMessage) ==
    [type |-> type, message |-> message, rawMessage |-> rawMessage]

\* issue.rawMessage || messageToString(issue.message)
MatchString(issue) ==
    IF issue.rawMessage # <<>> THEN issue.rawMessage
    ELSE messageToString(issue.message)

PatternMatches_IgnoreRegExp(pattern, message) ==
    ~pattern.re /\ Includes(message, pattern.src)

\* String.prototype.toLowerCase of one letter
LowerCase(ch) == IF ch = "O" THEN "o" ELSE ch

PatternMatches_CaseInsensitive(pattern, message) ==
    IF ~pattern.re
    THEN Includes([i \in 1..Len(message) |-> LowerCase(message[i])],
                  [i \in 1..Len(pattern.src) |-> LowerCase(pattern.src[i])])
    ELSE RegExpTest(pattern, message)

\* typeof pattern === 'string' ? message.includes(pattern) : pattern.test(message)
PatternMatches(pattern, message) ==
    IF ~pattern.re THEN Includes(message, pattern.src)
    ELSE RegExpTest(pattern, message)

\* mergedConfig.whitelist.some(...)
IsWhitelisted(issue, whitelist) ==
    \E i \in 1..Len(whitelist) : PatternMatches(whitelist[i], MatchString(issue))

OfType(issues, type) ==
    SelectSeqIdx(issues, {i \in 1..Len(issues) : issues[i].type = type}, 1)

FilterIssues_WarningsAlways(issues, merged) ==
    LET candidates == OfType(issues, "error") \o OfType(issues, "warn")
    IN SelectSeqIdx(candidates,
          {i \in 1..Len(candidates) :
              ~IsWhitelisted(candidates[i], merged.whitelist)}, 1)

\* [...errors, ...(throwOnWarning ? warnings : [])].filter(not whitelisted)
FilterIssues(issues, merged) ==
    LET errors == OfType(issues, "error")
        warnings == OfType(issues, "warn")
        candidates == errors \o (IF merged.throwOnWarning THEN warnings ELSE <<>>)
    IN SelectSeqIdx(candidates,
          {i \in 1..Len(candidates) :
              ~IsWhitelisted(candidates[i], merged.whitelist)}, 1)

\* formatIssue, and the message entry of the batch
FormatIssue(issue) == MatchString(issue)

\* The payload processIssues hands to cy.task('processConsoleBatch', ...)
BatchOf(issues, cfg, path) ==
    [issues |-> [i \in 1..Len(issues) |->
                    [type |-> issues[i].type, message |-> FormatIssue(issues[i])]],
     testPath |-> path,
     logToFile |-> cfg.logToFile]

\* The ConsoleErrors failure: one bullet line per filtered issue
ConsoleErrorsFailure(issues) ==
    [name |-> "ConsoleErrors",
     lines |-> [i \in 1..Len(issues) |-> FormatIssue(issues[i])]]

BodyFailure == [name |-> "BodyFailure", lines |-> <<>>]

RestoreFailure == [name |-> "RestoreFailure", lines |-> <<>>]

TaskFailure == [name |-> "TaskFailure", lines |-> <<>>]

(***************************************************************************)
(* Spies.  consoleSpies maps a method name to the spy stored under it.     *)
(***************************************************************************)
Methods == {"error", "warn", "log"}

NoWin == "nowin"

NoSpy == [win |-> NoWin, calls |-> <<>>, live |-> FALSE]

NewSpy(w) == [win |-> w, calls |-> <<>>, live |-> TRUE]

NoSpies == [m \in Methods |-> NoSpy]

\* collectSpyCalls(method, spy): the issues made from the spy's calls
collectSpyCalls(method, spy) ==
    [i \in 1..Len(spy.calls) |->
        Issue(getIssueType(method), spy.calls[i], RawMessageOf(spy.calls[i]))]

\* config.methodsToTrack.forEach((method) => collectSpyCalls(method, consoleSpies[method]))
CollectAll(spies, methods) ==
    Flatten([i \in 1..Len(methods) |-> collectSpyCalls(methods[i], spies[methods[i]])])

\* Object.values(consoleSpies): the stored spies in insertion order, which is
\* the order of methodsToTrack
SpyOrder(spies, methods) ==
    SelectSeqIdx(methods, {i \in 1..Len(methods) : spies[methods[i]] # NoSpy}, 1)


(***************************************************************************)
(* Bounds and the inputs drawn by the specifications.                      *)
(***************************************************************************)
MaxTests == 2

MaxEvents == 2

MaxFaults == 1

Windows == {"w1", "w2"}

Known == <<"known", SP, "warning">>

TestError == <<"Test", SP, "error">>

\* The console calls a test body or a page makes: <<method, arguments>>
ConsoleCalls ==
    {<<"error", <<StrArg(TestError)>>>>,
     <<"error", <<ErrArg(<<"TypeError">>, Known)>>>>,
     <<"warn", <<StrArg(Known)>>>>,
     <<"log", <<StrArg(TestError)>>>>}

\* event.message of the uncaught error events
ErrorEvents == {<<"boom">>}

\* customConfig: Cypress.env('consoleDaemon')
AllMethods == <<"error", "warn", "log">>

RunCustomConfigs ==
    {EmptyPartial,
     [EmptyPartial EXCEPT !.methodsToTrack = Some(AllMethods)],
     [EmptyPartial EXCEPT !.methodsToTrack = Some(AllMethods),
                          !.whitelist = Some(<<StrEntry(<<"known">>)>>)]}

\* The console methods whose spy may be the frail one
FrailMethods == {"error", "warn"}

\* <<test config, suite config>> of the tests of the spec file, in a cycle:
\* the run starts at any place of the cycle
RunDecls ==
    <<  <<NoDecl, NoDecl>>,
        <<Decl([EmptyPartial EXCEPT !.failOnSpy = Some(FALSE)]), NoDecl>>,
        <<NoDecl, Decl([EmptyPartial EXCEPT !.throwOnWarning = Some(TRUE),
                                            !.logToFile = Some(FALSE)])>>,
        <<Decl([EmptyPartial EXCEPT !.failOnSpy = Some(TRUE)]),
          Decl([EmptyPartial EXCEPT !.failOnSpy = Some(FALSE)])>>,
        <<Decl([EmptyPartial EXCEPT !.whitelist = Some(<<ReEntry(TRUE, <<"Test">>)>>)]),
          Decl([EmptyPartial EXCEPT !.whitelist = Some(<<StrEntry(<<"boom">>)>>)])>>  >>

\* The declared configs of the n-th test run, the run starting at place first
DeclOf(first, n) == RunDecls[((first + n - 2) % Len(RunDecls)) + 1]

\* Cypress.spec.relative
TestPaths == {<<"login.cy", ".js">>}

(***************************************************************************)
(* State.                                                                  *)
(***************************************************************************)
VARIABLES
    firstTest,                \* the place of RunDecls the run starts at
    frail,                    \* the console method whose spy may throw on restore or creation
    config,                   \* client closure: { ...defaultConfig, ...customConfig }
    testPath,                 \* Cypress.spec.relative
    pc,                       \* position of the wrapped test in the command queue
    currentTestConfig,        \* client closure variable
    describeCfg,              \* describeConfigForTest captured by the running wrapper
    consoleSpies,             \* client closure: method -> spy
    orphans,                  \* <<window, method>> still wrapped by a spy no longer stored
    allIssues,                \* client closure: accumulated issues
    windowsWithErrorHandlers, \* client closure: WeakSet of windows
    listeners,                \* window -> number of 'error' listeners added by the plugin
    curWin,                   \* the window cy.window() yields
    mergedConfig,             \* checkConsoleErrors local
    filteredIssues,           \* checkConsoleErrors local
    checked,                  \* None, or Some(allIssues as checkConsoleErrors read it)
    sent,                     \* payloads handed to cy.task in the current test
    failures,                 \* failures surfaced by the current test, in order
    status,                   \* "none" | "running" | "passed" | "failed"
    bodyResult,               \* "none" | "running" | "done" | "failed"
    errorStats,               \* server closure
    logDirCreated,            \* server closure
    dirExists,                \* file system: the log directory exists
    logs,                     \* file system: log file name -> lines
    nTests, nEvents, nFaults  \* budget counters of the bounded exploration

envVars == <<firstTest, frail>>

clientVars ==
    <<config, testPath, pc, currentTestConfig, describeCfg, consoleSpies, orphans,
      allIssues, windowsWithErrorHandlers, listeners, curWin, mergedConfig,
      filteredIssues, checked, sent, failures, status, bodyResult>>

serverVars == <<errorStats, logDirCreated, dirExists, logs>>

counterVars == <<nTests, nEvents, nFaults>>

\* State of the registration pass (describe/it) and of the merge in isolation
VARIABLES
    describeConfigStack,      \* client closure
    currentDescribeConfig,    \* client closure
    openSuites,               \* the suites whose body is executing, outermost first
    tests,                    \* the tests registered so far
    regPhase,                 \* "registering" | "running"
    nSuites,                  \* suites declared so far
    mCustom, mTestConfig, mDescribeConfig, mMerged  \* inputs and result of one merge

regVars ==
    <<describeConfigStack, currentDescribeConfig, openSuites, tests, regPhase, nSuites>>

mergeVars == <<mCustom, mTestConfig, mDescribeConfig, mMerged>>

\* The Aggregator's tasks called directly (SpecServer)
VARIABLES
    srvOp,                    \* the last task or hook that ran on the server
    srvBatch,                 \* None, or Some(payload of the last processConsoleBatch)
    taskResult,               \* "none" | "null" | "stats" | "threw": how the last task ended
    received,                 \* {type, message} of the issues received since the last reset
    legacyCalls,              \* logConsoleError calls since the last reset
    detailsId,                \* identity of the array held in errorStats.details
    returned,                 \* None, or Some(the object the last getErrorStats returned)
    returnedAfter,            \* the operation that ran just before that getErrorStats
    dirChecks,                \* fs.existsSync calls of ensureLogDir since the last run start
    nOps                      \* budget counter of the bounded exploration

apiVars ==
    <<srvOp, srvBatch, taskResult, received, legacyCalls, detailsId, returned,
      returnedAfter, dirChecks, nOps>>

\* let errorStats = { errors: 0, warnings: 0, details: [] }
ZeroStats == [errors |-> 0, warnings |-> 0, details |-> <<>>]

ApiIdle ==
    /\ srvOp = "none"
    /\ srvBatch = None
    /\ taskResult = "none"
    /\ received = <<>>
    /\ legacyCalls = 0
    /\ detailsId = 0
    /\ returned = None
    /\ returnedAfter = "none"
    /\ dirChecks = 0
    /\ nOps = 0

\* What the page under test did, kept for the specification of the gaps
VARIABLES
    made                      \* the console calls the page made: test, phase, method, args, recorded

pageVars == <<made>>

PageIdle == made = <<>>

\* Aggregator state of the specifications of overlapping batches and of the
\* auxiliary tasks
VARIABLES
    pending,                  \* the processConsoleBatch calls suspended at await appendToLogFile
    debugMode                 \* let debugMode = false

hostVars == <<pending, debugMode>>

HostIdle ==
    /\ pending = <<>>
    /\ debugMode = FALSE

auxVars == <<regVars, mergeVars, apiVars, pageVars, hostVars>>

runVars == <<envVars, clientVars, serverVars, counterVars>>

vars == <<runVars, auxVars>>


(***************************************************************************)
(* The Monitor: spy lifecycle (client.js).                                 *)
(***************************************************************************)
Tracked_MergedMethods(cfg) ==
    LET methods == getMergedConfig(cfg, currentTestConfig, describeCfg).methodsToTrack
    IN {methods[i] : i \in 1..Len(methods)}

Tracked(cfg) == {cfg.methodsToTrack[i] : i \in 1..Len(cfg.methodsToTrack)}

\* The outcomes of cleanupSpies(): every stored spy restored and the map
\* emptied, or spy.restore() of the k-th stored spy throws, which leaves the
\* earlier ones restored and the map as it was (the throw is not caught).
cleanupSpies(spies, methods, mayFail) ==
    LET order == SpyOrder(spies, methods)
    IN {[spies |-> NoSpies, threw |-> FALSE]}
       \cup
       {[spies |-> [m \in Methods |->
                      IF \E j \in 1..(k - 1) : order[j] = m
                      THEN [spies[m] EXCEPT !.live = FALSE] ELSE spies[m]],
         threw |-> TRUE]
          : k \in {i \in 1..Len(order) :
                      mayFail /\ order[i] = frail /\ spies[order[i]].live}}

setupConsoleSpy_KeepsCalls(win, rf, cf) ==
    LET collected == allIssues \o CollectAll(consoleSpies, config.methodsToTrack)
        orph == orphans \cup {<<consoleSpies[m].win, m>> : m \in rf}
        spies == [m \in Methods |->
                    IF m \in Tracked(config) /\ m \notin cf /\ <<win, m>> \notin orph
                    THEN [NewSpy(win) EXCEPT !.calls = consoleSpies[m].calls] ELSE NoSpy]
    IN /\ allIssues' = collected
       /\ orphans' = orph
       /\ consoleSpies' = spies
       /\ windowsWithErrorHandlers' = windowsWithErrorHandlers \cup {win}
       /\ listeners' = IF win \in windowsWithErrorHandlers THEN listeners
                       ELSE [listeners EXCEPT ![win] = @ + 1]

setupConsoleSpy_NoDrain(win, rf, cf) ==
    LET orph == orphans \cup {<<consoleSpies[m].win, m>> : m \in rf}
        spies == [m \in Methods |->
                    IF m \in Tracked(config) /\ m \notin cf /\ <<win, m>> \notin orph
                    THEN NewSpy(win) ELSE NoSpy]
    IN /\ allIssues' = allIssues
       /\ orphans' = orph
       /\ consoleSpies' = spies
       /\ windowsWithErrorHandlers' = windowsWithErrorHandlers \cup {win}
       /\ listeners' = IF win \in windowsWithErrorHandlers THEN listeners
                       ELSE [listeners EXCEPT ![win] = @ + 1]

setupConsoleSpy_ListenerEveryTime(win, rf, cf) ==
    LET collected == allIssues \o CollectAll(consoleSpies, config.methodsToTrack)
        orph == orphans \cup {<<consoleSpies[m].win, m>> : m \in rf}
        spies == [m \in Methods |->
                    IF m \in Tracked(config) /\ m \notin cf /\ <<win, m>> \notin orph
                    THEN NewSpy(win) ELSE NoSpy]
    IN /\ allIssues' = collected
       /\ orphans' = orph
       /\ consoleSpies' = spies
       /\ windowsWithErrorHandlers' = windowsWithErrorHandlers \cup {win}
       /\ listeners' = [listeners EXCEPT ![win] = @ + 1]

\* setupConsoleSpy(win) where spy.restore() throws for the methods in rf and
\* cy.spy throws for the methods in cf (both caught).  A spy whose restore
\* threw stays on its console method; cy.spy on a wrapped method throws.
setupConsoleSpy(win, rf, cf) ==
    LET collected == allIssues \o CollectAll(consoleSpies, config.methodsToTrack)
        orph == orphans \cup {<<consoleSpies[m].win, m>> : m \in rf}
        spies == [m \in Methods |->
                    IF m \in Tracked(config) /\ m \notin cf /\ <<win, m>> \notin orph
                    THEN NewSpy(win) ELSE NoSpy]
    IN /\ allIssues' = collected
       /\ orphans' = orph
       /\ consoleSpies' = spies
       /\ windowsWithErrorHandlers' = windowsWithErrorHandlers \cup {win}
       /\ listeners' = IF win \in windowsWithErrorHandlers THEN listeners
                       ELSE [listeners EXCEPT ![win] = @ + 1]

\* The fault choices of one setupConsoleSpy call: none, or the restore or
\* the creation of the frail method's spy throws
SetupFaults ==
    {<<{}, {}>>}
    \cup (IF nFaults < MaxFaults /\ consoleSpies[frail].live
          THEN {<<{frail}, {}>>} ELSE {})
    \cup (IF nFaults < MaxFaults THEN {<<{}, {frail}>>} ELSE {})

(***************************************************************************)
(* The Monitor: the wrapped test (wrapTest) as steps of the command queue. *)
(***************************************************************************)
TestStart_KeepsIssues ==
    /\ pc = "idle" /\ nTests < MaxTests
    /\ currentTestConfig' = DeclOf(firstTest, nTests + 1)[1]
    /\ describeCfg' = DeclOf(firstTest, nTests + 1)[2]
    /\ nTests' = nTests + 1
    /\ \E r \in cleanupSpies(consoleSpies, config.methodsToTrack, nFaults < MaxFaults) :
         /\ consoleSpies' = r.spies
         /\ allIssues' = allIssues
         /\ IF r.threw
            THEN /\ failures' = <<RestoreFailure>>
                 /\ status' = "failed"
                 /\ pc' = "idle"
                 /\ nFaults' = nFaults + 1
            ELSE /\ failures' = <<>>
                 /\ status' = "running"
                 /\ pc' = "window"
                 /\ nFaults' = nFaults
    /\ bodyResult' = "none"
    /\ sent' = <<>>
    /\ filteredIssues' = <<>>
    /\ checked' = None
    /\ UNCHANGED <<auxVars, envVars, config, testPath, orphans, windowsWithErrorHandlers, listeners,
                   curWin, mergedConfig, serverVars, nEvents>>

\* The wrapper's synchronous part: currentTestConfig, cleanupSpies, reset.
TestStart ==
    /\ pc = "idle" /\ nTests < MaxTests
    /\ currentTestConfig' = DeclOf(firstTest, nTests + 1)[1]
    /\ describeCfg' = DeclOf(firstTest, nTests + 1)[2]
    /\ nTests' = nTests + 1
    /\ \E r \in cleanupSpies(consoleSpies, config.methodsToTrack, nFaults < MaxFaults) :
         /\ consoleSpies' = r.spies
         /\ IF r.threw
            THEN /\ allIssues' = allIssues
                 /\ failures' = <<RestoreFailure>>
                 /\ status' = "failed"
                 /\ pc' = "idle"
                 /\ nFaults' = nFaults + 1
            ELSE /\ allIssues' = <<>>
                 /\ failures' = <<>>
                 /\ status' = "running"
                 /\ pc' = "window"
                 /\ nFaults' = nFaults
    /\ bodyResult' = "none"
    /\ sent' = <<>>
    /\ filteredIssues' = <<>>
    /\ checked' = None
    /\ UNCHANGED <<auxVars, envVars, config, testPath, orphans, windowsWithErrorHandlers, listeners,
                   curWin, mergedConfig, serverVars, nEvents>>

\* cy.window().then((win) => { setupConsoleSpy(win); return testFn.call(this) })
SetupAndCallBody ==
    /\ pc = "window"
    /\ \E f \in SetupFaults :
         /\ setupConsoleSpy(curWin, f[1], f[2])
         /\ nFaults' = nFaults + Cardinality(f[1]) + Cardinality(f[2])
    /\ pc' = "body"
    /\ bodyResult' = "running"
    /\ UNCHANGED <<auxVars, envVars, config, testPath, currentTestConfig, describeCfg, curWin,
                   mergedConfig, filteredIssues, checked, sent, failures, status,
                   serverVars, nTests, nEvents>>

\* A call of console[method](...args) on the current window, while fewer
\* than limit events have happened
ConsoleCallWithin(limit) ==
    /\ pc = "body" /\ nEvents < limit
    /\ \E c \in ConsoleCalls :
         consoleSpies' =
            IF consoleSpies[c[1]].live /\ consoleSpies[c[1]].win = curWin
            THEN [consoleSpies EXCEPT ![c[1]].calls = Append(@, c[2])]
            ELSE consoleSpies
    /\ nEvents' = nEvents + 1
    /\ UNCHANGED <<auxVars, envVars, config, testPath, pc, currentTestConfig, describeCfg, orphans,
                   allIssues, windowsWithErrorHandlers, listeners, curWin,
                   mergedConfig, filteredIssues, checked, sent, failures, status, bodyResult,
                   serverVars, nTests, nFaults>>

ConsoleCall == ConsoleCallWithin(MaxEvents)

\* The issue the 'error' listener pushes for one event
UncaughtIssue(msg) ==
    Issue("error",
          <<StrArg(<<"Uncaught", SP, "Error", ":", SP>> \o msg
                   \o <<SP, "at", SP, "app.js", ":", "1">>)>>,
          msg)

RECURSIVE Repeat(_, _)
Repeat(x, n) == IF n = 0 THEN <<>> ELSE <<x>> \o Repeat(x, n - 1)

UncaughtErrorWithin_CallsTask(limit) ==
    /\ pc \in {"body", "task"} /\ nEvents < limit
    /\ \E msg \in ErrorEvents :
         /\ allIssues' = allIssues \o Repeat(UncaughtIssue(msg), listeners[curWin])
         /\ sent' = Append(sent, BatchOf(<<UncaughtIssue(msg)>>, config, testPath))
    /\ nEvents' = nEvents + 1
    /\ UNCHANGED <<auxVars, envVars, config, testPath, pc, currentTestConfig, describeCfg, consoleSpies,
                   orphans, windowsWithErrorHandlers, listeners, curWin,
                   mergedConfig, filteredIssues, checked, failures, status, bodyResult,
                   serverVars, nTests, nFaults>>

\* An 'error' event on the current window: every listener the plugin added
\* to that window runs once
UncaughtErrorWithin(limit) ==
    /\ pc \in {"body", "task"} /\ nEvents < limit
    /\ \E msg \in ErrorEvents :
         allIssues' = allIssues \o Repeat(UncaughtIssue(msg), listeners[curWin])
    /\ nEvents' = nEvents + 1
    /\ UNCHANGED <<auxVars, envVars, config, testPath, pc, currentTestConfig, describeCfg, consoleSpies,
                   orphans, windowsWithErrorHandlers, listeners, curWin,
                   mergedConfig, filteredIssues, checked, sent, failures, status, bodyResult,
                   serverVars, nTests, nFaults>>

UncaughtError == UncaughtErrorWithin(MaxEvents)

\* Cypress.on('window:load', (win) => setupConsoleSpy(win))
WindowLoad ==
    /\ pc = "body" /\ nEvents < MaxEvents
    /\ \E w \in Windows, f \in SetupFaults :
         /\ curWin' = w
         /\ setupConsoleSpy(w, f[1], f[2])
         /\ nFaults' = nFaults + Cardinality(f[1]) + Cardinality(f[2])
    /\ nEvents' = nEvents + 1
    /\ UNCHANGED <<auxVars, envVars, config, testPath, pc, currentTestConfig, describeCfg,
                   mergedConfig, filteredIssues, checked, sent, failures, status, bodyResult,
                   serverVars, nTests>>

\* The body and the commands it queued end without a failure
BodyDone ==
    /\ pc = "body"
    /\ pc' = "collect"
    /\ bodyResult' = "done"
    /\ UNCHANGED <<auxVars, envVars, config, testPath, currentTestConfig, describeCfg, consoleSpies,
                   orphans, allIssues, windowsWithErrorHandlers, listeners, curWin,
                   mergedConfig, filteredIssues, checked, sent, failures, status,
                   serverVars, counterVars>>

BodyFail_ChainContinues ==
    /\ pc = "body"
    /\ pc' = "collect"
    /\ bodyResult' = "failed"
    /\ failures' = Append(failures, BodyFailure)
    /\ status' = "failed"
    /\ UNCHANGED <<auxVars, envVars, config, testPath, currentTestConfig, describeCfg,
                   consoleSpies, orphans, allIssues, windowsWithErrorHandlers,
                   listeners, curWin, mergedConfig, filteredIssues, checked, sent,
                   serverVars, counterVars>>

\* The body throws or a command it queued fails: the command queue stops,
\* the later .then callbacks of wrapTest never run
BodyFail ==
    /\ pc = "body"
    /\ pc' = "idle"
    /\ bodyResult' = "failed"
    /\ failures' = Append(failures, BodyFailure)
    /\ status' = "failed"
    /\ UNCHANGED <<auxVars, envVars, config, testPath, currentTestConfig, describeCfg, consoleSpies,
                   orphans, allIssues, windowsWithErrorHandlers, listeners, curWin,
                   mergedConfig, filteredIssues, checked, sent, serverVars, counterVars>>

CollectAndCheck_OneCallPerIssue ==
    /\ pc = "collect"
    /\ LET issues == allIssues \o CollectAll(consoleSpies, config.methodsToTrack)
           merged == getMergedConfig(config, currentTestConfig, describeCfg)
           filtered == FilterIssues(issues, merged)
       IN /\ allIssues' = issues
          /\ mergedConfig' = merged
          /\ filteredIssues' = filtered
          /\ checked' = Some(issues)
          /\ sent' = sent \o [i \in 1..Len(filtered) |->
                                 BatchOf(<<filtered[i]>>, config, testPath)]
          /\ pc' = IF Len(filtered) = 0 THEN "evaluate" ELSE "task"
    /\ UNCHANGED <<auxVars, envVars, config, testPath, currentTestConfig, describeCfg, consoleSpies,
                   orphans, windowsWithErrorHandlers, listeners, curWin, failures,
                   status, bodyResult, serverVars, counterVars>>

\* .then(() => { collect; return checkConsoleErrors(describeConfigForTest) })
\* up to the command processIssues queues
CollectAndCheck ==
    /\ pc = "collect"
    /\ LET issues == allIssues \o CollectAll(consoleSpies, config.methodsToTrack)
           merged == getMergedConfig(config, currentTestConfig, describeCfg)
           filtered == FilterIssues(issues, merged)
       IN /\ allIssues' = issues
          /\ mergedConfig' = merged
          /\ filteredIssues' = filtered
          /\ checked' = Some(issues)
          /\ IF Len(filtered) = 0
             THEN /\ sent' = sent
                  /\ pc' = "evaluate"
             ELSE /\ sent' = Append(sent, BatchOf(filtered, config, testPath))
                  /\ pc' = "task"
    /\ UNCHANGED <<auxVars, envVars, config, testPath, currentTestConfig, describeCfg, consoleSpies,
                   orphans, windowsWithErrorHandlers, listeners, curWin, failures,
                   status, bodyResult, serverVars, counterVars>>


(***************************************************************************)
(* The Aggregator (server.js).                                             *)
(***************************************************************************)
LogNames == {"login.cy", "unknown_test"}

\* path.basename(testPath, path.extname(testPath)) || 'unknown_test', for a
\* path given as <<stem, extension>>
testName(path) ==
    IF path = <<>> \/ path[1] = "" THEN "unknown_test" ELSE path[1]

toUpperCase(type) ==
    CASE type = "error" -> "ERROR" [] type = "warn" -> "WARN"
      [] type = "info" -> "INFO" [] OTHER -> type

StatsAfter_InfoUncounted(stats, issues) ==
    [errors |-> stats.errors
                  + Cardinality({i \in 1..Len(issues) : issues[i].type = "error"}),
     warnings |-> stats.warnings
                  + Cardinality({i \in 1..Len(issues) : issues[i].type = "warn"}),
     details |-> stats.details
                  \o [i \in 1..Len(issues) |->
                        [type |-> issues[i].type, message |-> issues[i].message]]]

\* The statistics after issues.forEach(...) of processConsoleBatch
StatsAfter(stats, issues) ==
    [errors |-> stats.errors
                  + Cardinality({i \in 1..Len(issues) : issues[i].type = "error"}),
     warnings |-> stats.warnings
                  + Cardinality({i \in 1..Len(issues) : issues[i].type # "error"}),
     details |-> stats.details
                  \o [i \in 1..Len(issues) |->
                        [type |-> issues[i].type, message |-> issues[i].message]]]

\* One line of the log file per issue (the timestamp is left out)
LogLines(issues) ==
    [i \in 1..Len(issues) |->
        [type |-> toUpperCase(issues[i].type), message |-> issues[i].message]]

\* ensureLogDir() has to call fs.mkdirSync
NeedsMkdir == ~logDirCreated /\ ~dirExists

processConsoleBatch_AppendNotAwaited(b, fault) ==
    IF Len(b.issues) = 0
    THEN fault = "none" /\ UNCHANGED serverVars
    ELSE /\ errorStats' = StatsAfter(errorStats, b.issues)
         /\ IF b.logToFile /\ b.testPath # <<>>
            THEN /\ fault = "mkdir" => NeedsMkdir
                 /\ logDirCreated' = (fault # "mkdir")
                 /\ dirExists' = (dirExists \/ fault # "mkdir")
                 /\ logs' = logs
            ELSE /\ fault = "none"
                 /\ UNCHANGED <<logDirCreated, dirExists, logs>>

processConsoleBatch_EnsureDirFirst(b, fault) ==
    /\ fault = "mkdir" => NeedsMkdir
    /\ logDirCreated' = (fault # "mkdir")
    /\ dirExists' = (dirExists \/ fault # "mkdir")
    /\ IF Len(b.issues) = 0
       THEN UNCHANGED <<errorStats, logs>>
       ELSE /\ errorStats' = StatsAfter(errorStats, b.issues)
            /\ logs' = IF fault = "none" /\ b.logToFile /\ b.testPath # <<>>
                       THEN [logs EXCEPT ![testName(b.testPath)] =
                                @ \o LogLines(b.issues)]
                       ELSE logs

\* The task processConsoleBatch(b).  fault is "none", "mkdir" (fs.mkdirSync
\* throws inside ensureLogDir: the task rejects) or "append" (appendFile
\* rejects: caught by appendToLogFile).
processConsoleBatch(b, fault) ==
    IF Len(b.issues) = 0
    THEN fault = "none" /\ UNCHANGED serverVars
    ELSE /\ errorStats' = StatsAfter(errorStats, b.issues)
         /\ IF b.logToFile /\ b.testPath # <<>>
            THEN /\ fault = "mkdir" => NeedsMkdir
                 /\ logDirCreated' = (fault # "mkdir")
                 /\ dirExists' = (dirExists \/ fault # "mkdir")
                 /\ logs' = IF fault = "none"
                            THEN [logs EXCEPT ![testName(b.testPath)] =
                                     @ \o LogLines(b.issues)]
                            ELSE logs
            ELSE /\ fault = "none"
                 /\ UNCHANGED <<logDirCreated, dirExists, logs>>

\* cy.task('processConsoleBatch', ...) runs on the server and settles
TaskRun ==
    /\ pc = "task"
    /\ \E fault \in {"none", "mkdir", "append"} :
         /\ fault # "none" => nFaults < MaxFaults
         /\ processConsoleBatch(sent[Len(sent)], fault)
         /\ nFaults' = IF fault = "none" THEN nFaults ELSE nFaults + 1
         /\ IF fault = "mkdir"
            THEN /\ failures' = Append(failures, TaskFailure)
                 /\ status' = "failed"
                 /\ pc' = "idle"
            ELSE /\ UNCHANGED <<failures, status>>
                 /\ pc' = "evaluate"
    /\ UNCHANGED <<auxVars, envVars, config, testPath, currentTestConfig, describeCfg, consoleSpies,
                   orphans, allIssues, windowsWithErrorHandlers, listeners, curWin,
                   mergedConfig, filteredIssues, checked, sent, bodyResult, nTests, nEvents>>

Evaluate_IgnoreFailOnSpy ==
    /\ pc = "evaluate"
    /\ IF Len(filteredIssues) > 0
       THEN /\ failures' = Append(failures, ConsoleErrorsFailure(filteredIssues))
            /\ status' = "failed"
            /\ pc' = "idle"
       ELSE /\ UNCHANGED <<failures, status>>
            /\ pc' = "cleanup"
    /\ UNCHANGED <<auxVars, envVars, config, testPath, currentTestConfig, describeCfg, consoleSpies,
                   orphans, allIssues, windowsWithErrorHandlers, listeners, curWin,
                   mergedConfig, filteredIssues, checked, sent, bodyResult, serverVars,
                   counterVars>>

\* processIssues(filteredIssues).then(() => { if (...) throw consoleError })
Evaluate ==
    /\ pc = "evaluate"
    /\ IF Len(filteredIssues) > 0 /\ mergedConfig.failOnSpy
       THEN /\ failures' = Append(failures, ConsoleErrorsFailure(filteredIssues))
            /\ status' = "failed"
            /\ pc' = "idle"
       ELSE /\ UNCHANGED <<failures, status>>
            /\ pc' = "cleanup"
    /\ UNCHANGED <<auxVars, envVars, config, testPath, currentTestConfig, describeCfg, consoleSpies,
                   orphans, allIssues, windowsWithErrorHandlers, listeners, curWin,
                   mergedConfig, filteredIssues, checked, sent, bodyResult, serverVars,
                   counterVars>>

\* .then(() => { cleanupSpies() })
FinalCleanup ==
    /\ pc = "cleanup"
    /\ \E r \in cleanupSpies(consoleSpies, config.methodsToTrack, nFaults < MaxFaults) :
         /\ consoleSpies' = r.spies
         /\ IF r.threw
            THEN /\ failures' = Append(failures, RestoreFailure)
                 /\ status' = "failed"
                 /\ nFaults' = nFaults + 1
            ELSE /\ failures' = failures
                 /\ status' = "passed"
                 /\ nFaults' = nFaults
    /\ pc' = "idle"
    /\ UNCHANGED <<auxVars, envVars, config, testPath, currentTestConfig, describeCfg, orphans,
                   allIssues, windowsWithErrorHandlers, listeners, curWin,
                   mergedConfig, filteredIssues, checked, sent, bodyResult, serverVars,
                   nTests, nEvents>>

(***************************************************************************)
(* Spec: a run of up to MaxTests wrapped tests of one spec file.           *)
(***************************************************************************)
RunInit ==
    /\ testPath \in TestPaths
    /\ pc = "idle"
    /\ currentTestConfig = NoDecl
    /\ describeCfg = NoDecl
    /\ consoleSpies = NoSpies
    /\ orphans = {}
    /\ allIssues = <<>>
    /\ windowsWithErrorHandlers = {}
    /\ listeners = [w \in Windows |-> 0]
    /\ curWin = "w1"
    /\ mergedConfig = defaultConfig
    /\ filteredIssues = <<>>
    /\ checked = None
    /\ sent = <<>>
    /\ failures = <<>>
    /\ status = "none"
    /\ bodyResult = "none"
    /\ errorStats = [errors |-> 0, warnings |-> 0, details |-> <<>>]
    /\ logDirCreated = FALSE
    /\ dirExists = FALSE
    /\ logs = [n \in LogNames |-> <<>>]
    /\ nTests = 0
    /\ nEvents = 0
    /\ nFaults = 0

RegIdle ==
    /\ describeConfigStack = <<>>
    /\ currentDescribeConfig = NoDecl
    /\ openSuites = <<>>
    /\ tests = <<>>
    /\ regPhase = "registering"
    /\ nSuites = 0

MergeIdle ==
    /\ mCustom = EmptyPartial
    /\ mTestConfig = NoDecl
    /\ mDescribeConfig = NoDecl
    /\ mMerged = None

Init ==
    /\ config \in {GlobalConfig(c) : c \in RunCustomConfigs}
    /\ firstTest \in 1..Len(RunDecls)
    /\ frail \in Tracked(config) \cap FrailMethods
    /\ RunInit
    /\ RegIdle
    /\ MergeIdle
    /\ ApiIdle
    /\ PageIdle
    /\ HostIdle

Next ==
    \/ TestStart
    \/ SetupAndCallBody
    \/ ConsoleCall
    \/ UncaughtError
    \/ WindowLoad
    \/ BodyDone
    \/ BodyFail
    \/ CollectAndCheck
    \/ TaskRun
    \/ Evaluate
    \/ FinalCleanup

Spec == Init /\ [][Next]_vars

(***************************************************************************)
(* SpecScenario: the readme's example.  Global methodsToTrack error and    *)
(* warn, whitelist 'known warning'; the tests of the file make up to       *)
(* ScenarioEvents console calls and uncaught errors on one window.         *)
(***************************************************************************)
ScenarioEvents == 3

ScenarioCustomConfig ==
    [EmptyPartial EXCEPT !.methodsToTrack = Some(<<"error", "warn">>),
                         !.whitelist = Some(<<StrEntry(Known)>>)]

InitScenario ==
    /\ config = GlobalConfig(ScenarioCustomConfig)
    /\ firstTest \in 1..Len(RunDecls)
    /\ frail = "error"
    /\ RunInit
    /\ RegIdle
    /\ MergeIdle
    /\ ApiIdle
    /\ PageIdle
    /\ HostIdle

NextScenario ==
    \/ TestStart
    \/ SetupAndCallBody
    \/ ConsoleCallWithin(ScenarioEvents)
    \/ UncaughtErrorWithin(ScenarioEvents)
    \/ BodyDone
    \/ BodyFail
    \/ CollectAndCheck
    \/ TaskRun
    \/ Evaluate
    \/ FinalCleanup

SpecScenario == InitScenario /\ [][NextScenario]_vars


(***************************************************************************)
(* SpecPage: the wrapped tests with a page that calls its console at any   *)
(* time: in a hook before the test, between the teardown at the start of   *)
(* the test and the setup queued behind cy.window(), in the body, and on a *)
(* window it navigated to whose window:load has not fired yet.             *)
(***************************************************************************)
MaxPage == 3

\* The console calls of the page
PageCalls == {<<"error", <<StrArg(TestError)>>>>}

\* Where the wrapped test is when the page acts
PhaseOf(at) ==
    IF at = "idle" THEN "hook" ELSE IF at = "window" THEN "gap" ELSE "body"

\* The page calls console[method](...args): the spy stored for the method
\* records the call when it wraps the console of the current window
PageConsoleCall ==
    /\ pc \in {"idle", "window", "body"} /\ nEvents < MaxPage
    /\ \E c \in PageCalls :
         LET seen == consoleSpies[c[1]].live /\ consoleSpies[c[1]].win = curWin
         IN /\ consoleSpies' =
                  IF seen THEN [consoleSpies EXCEPT ![c[1]].calls = Append(@, c[2])]
                  ELSE consoleSpies
            /\ made' = Append(made, [test |-> nTests, phase |-> PhaseOf(pc),
                                     method |-> c[1], args |-> c[2], recorded |-> seen])
    /\ nEvents' = nEvents + 1
    /\ UNCHANGED <<regVars, mergeVars, apiVars, hostVars, envVars, config, testPath, pc,
                   currentTestConfig, describeCfg, orphans,
                   allIssues, windowsWithErrorHandlers, listeners, curWin,
                   mergedConfig, filteredIssues, checked, sent, failures, status, bodyResult,
                   serverVars, nTests, nFaults>>

\* The body navigates: the page lives in a new window, whose window:load has
\* not fired yet
Navigate ==
    /\ pc = "body" /\ nEvents < MaxPage
    /\ \E w \in Windows \ {curWin} : curWin' = w
    /\ nEvents' = nEvents + 1
    /\ UNCHANGED <<regVars, mergeVars, apiVars, hostVars, made, envVars, config, testPath, pc,
                   currentTestConfig, describeCfg, consoleSpies, orphans,
                   allIssues, windowsWithErrorHandlers, listeners,
                   mergedConfig, filteredIssues, checked, sent, failures, status, bodyResult,
                   serverVars, nTests, nFaults>>

\* Cypress.on('window:load', ...) while a hook runs, outside any wrapped test
HookWindowLoad ==
    /\ pc = "idle" /\ nEvents < MaxPage
    /\ \E w \in Windows :
         /\ curWin' = w
         /\ setupConsoleSpy(w, {}, {})
    /\ nEvents' = nEvents + 1
    /\ UNCHANGED <<regVars, mergeVars, apiVars, hostVars, made, envVars, config, testPath, pc,
                   currentTestConfig, describeCfg,
                   mergedConfig, filteredIssues, checked, sent, failures, status, bodyResult,
                   serverVars, nTests, nFaults>>

InitPage ==
    /\ config = GlobalConfig(EmptyPartial)
    /\ firstTest = 1
    /\ frail = "error"
    /\ RunInit
    /\ RegIdle
    /\ MergeIdle
    /\ ApiIdle
    /\ PageIdle
    /\ HostIdle

NextPage ==
    \/ TestStart
    \/ SetupAndCallBody
    \/ PageConsoleCall
    \/ Navigate
    \/ HookWindowLoad
    \/ WindowLoad
    \/ BodyDone
    \/ BodyFail
    \/ CollectAndCheck
    \/ TaskRun
    \/ Evaluate
    \/ FinalCleanup

SpecPage == InitPage /\ [][NextPage]_vars

(***************************************************************************)
(* SpecFilter: checkConsoleErrors over drawn inputs.  The state at the     *)
(* collection step of one test is drawn: the calls its spies recorded, the *)
(* uncaught error pushed by the listener, and a whitelist entry at the     *)
(* global, the suite and the test level.  Strings are spelled character by *)
(* character, so that letter case and blanks take part in the matching.    *)
(***************************************************************************)
Oops == <<"O", "o", "p", "s">>

\* The arguments of the console.error calls the spy recorded
FilterErrorCalls ==
    {<<>>, <<<<StrArg(Oops)>>>>, <<<<StrArg(<<SP>> \o Oops)>>>>,
     <<<<StrArg(Oops)>>, <<NullArg>>>>}

\* The arguments of the console.warn calls the spy recorded
FilterWarnCalls == {<<>>, <<<<StrArg(<<"o", "o">>)>>>>}

\* event.message of the uncaught error the listener got, if any
FilterEvents == {None, Some(Oops), Some(<<>>)}

\* The whitelist a level declares: none, or one entry
FilterWhitelists ==
    {None}
    \cup {Some(<<e>>) : e \in {StrEntry(<<>>), StrEntry(<<"o", "o">>), StrEntry(<<"O", "O">>),
                               StrEntry(<<SP, "O">>), StrEntry(<<"Uncaught">>),
                               ReEntry(FALSE, <<"p", "s">>)}}

InitFilter ==
    /\ \E wl \in FilterWhitelists, tw \in BOOLEAN :
          config = GlobalConfig([EmptyPartial EXCEPT !.methodsToTrack = Some(<<"error", "warn">>),
                                                     !.whitelist = wl,
                                                     !.throwOnWarning = Some(tw)])
    /\ firstTest = 1
    /\ frail = "error"
    /\ testPath \in TestPaths
    /\ pc = "collect"
    /\ \E wl \in FilterWhitelists, fs \in {None, Some(FALSE)} :
          currentTestConfig = Decl([EmptyPartial EXCEPT !.whitelist = wl, !.failOnSpy = fs])
    /\ \E wl \in FilterWhitelists :
          describeCfg = IF wl = None THEN NoDecl
                        ELSE Decl([EmptyPartial EXCEPT !.whitelist = wl])
    /\ \E ec \in FilterErrorCalls, wc \in FilterWarnCalls :
          consoleSpies = [m \in Methods |->
                            IF m = "error" THEN [NewSpy("w1") EXCEPT !.calls = ec]
                            ELSE IF m = "warn" THEN [NewSpy("w1") EXCEPT !.calls = wc]
                            ELSE NoSpy]
    /\ orphans = {}
    /\ \E ev \in FilterEvents :
          allIssues = IF ev = None THEN <<>> ELSE <<UncaughtIssue(ev[1])>>
    /\ windowsWithErrorHandlers = {"w1"}
    /\ listeners = [w \in Windows |-> IF w = "w1" THEN 1 ELSE 0]
    /\ curWin = "w1"
    /\ mergedConfig = defaultConfig
    /\ filteredIssues = <<>>
    /\ checked = None
    /\ sent = <<>>
    /\ failures = <<>>
    /\ status = "running"
    /\ bodyResult = "done"
    /\ errorStats = [errors |-> 0, warnings |-> 0, details |-> <<>>]
    /\ logDirCreated = FALSE
    /\ dirExists = FALSE
    /\ logs = [n \in LogNames |-> <<>>]
    /\ nTests = 1
    /\ nEvents = 0
    /\ nFaults = 0
    /\ RegIdle
    /\ MergeIdle
    /\ ApiIdle
    /\ PageIdle
    /\ HostIdle

NextFilter ==
    \/ CollectAndCheck
    \/ TaskRun
    \/ Evaluate
    \/ FinalCleanup

SpecFilter == InitFilter /\ [][NextFilter]_vars

(***************************************************************************)
(* SpecTrack: one wrapped test whose suite and test declarations override  *)
(* methodsToTrack.  The state just after the start of the test is drawn.   *)
(***************************************************************************)
\* customConfig of the run
TrackCustomConfigs ==
    {EmptyPartial, [EmptyPartial EXCEPT !.methodsToTrack = Some(<<"error", "warn">>)]}

\* The config object given to it
TrackTestDecls ==
    {NoDecl,
     Decl([EmptyPartial EXCEPT !.methodsToTrack = Some(<<"warn">>)]),
     Decl([EmptyPartial EXCEPT !.methodsToTrack = Some(<<>>)])}

\* The config object given to describe
TrackSuiteDecls ==
    {NoDecl,
     Decl([EmptyPartial EXCEPT !.methodsToTrack = Some(<<"error", "log">>),
                               !.throwOnWarning = Some(TRUE)])}

InitTrack ==
    /\ config \in {GlobalConfig(c) : c \in TrackCustomConfigs}
    /\ firstTest = 1
    /\ frail = "error"
    /\ testPath \in TestPaths
    /\ pc = "window"
    /\ currentTestConfig \in TrackTestDecls
    /\ describeCfg \in TrackSuiteDecls
    /\ consoleSpies = NoSpies
    /\ orphans = {}
    /\ allIssues = <<>>
    /\ windowsWithErrorHandlers = {}
    /\ listeners = [w \in Windows |-> 0]
    /\ curWin = "w1"
    /\ mergedConfig = defaultConfig
    /\ filteredIssues = <<>>
    /\ checked = None
    /\ sent = <<>>
    /\ failures = <<>>
    /\ status = "running"
    /\ bodyResult = "none"
    /\ errorStats = [errors |-> 0, warnings |-> 0, details |-> <<>>]
    /\ logDirCreated = FALSE
    /\ dirExists = FALSE
    /\ logs = [n \in LogNames |-> <<>>]
    /\ nTests = MaxTests
    /\ nEvents = 0
    /\ nFaults = 0
    /\ RegIdle
    /\ MergeIdle
    /\ ApiIdle
    /\ PageIdle
    /\ HostIdle

NextTrack ==
    \/ SetupAndCallBody
    \/ ConsoleCall
    \/ WindowLoad
    \/ BodyDone
    \/ BodyFail
    \/ CollectAndCheck
    \/ TaskRun
    \/ Evaluate
    \/ FinalCleanup

SpecTrack == InitTrack /\ [][NextTrack]_vars

(***************************************************************************)
(* SpecMerge: getMergedConfig on its own, over every combination of a      *)
(* customConfig, a suite declaration and a test declaration.               *)
(***************************************************************************)
WlA == StrEntry(<<"alpha">>)

WlB == ReEntry(FALSE, <<"beta">>)

WlG == StrEntry(<<"gamma">>)

OptBool == {None, Some(TRUE), Some(FALSE)}

\* The consoleDaemon objects of a declaration
MergePartials ==
    {[EmptyPartial EXCEPT !.failOnSpy = fs, !.throwOnWarning = tw, !.whitelist = wl]
        : fs \in OptBool, tw \in OptBool,
          wl \in {None, Some(<<>>), Some(<<WlA>>), Some(<<WlB>>)}}

\* The config objects of a declaration: without or with the consoleDaemon
\* key, and with or without a failOnSpy beside it
MergeDecls ==
    {[consoleDaemon |-> cd, failOnSpy |-> stray]
        : cd \in {None} \cup {Some(x) : x \in MergePartials}, stray \in OptBool}

MergeCustoms ==
    {[EmptyPartial EXCEPT !.failOnSpy = fs, !.throwOnWarning = tw, !.whitelist = wl]
        : fs \in OptBool, tw \in {None, Some(TRUE)},
          wl \in {None, Some(<<WlG>>)}}

RunIdle ==
    /\ config = defaultConfig
    /\ firstTest = 1
    /\ frail = "error"
    /\ RunInit

InitMerge ==
    /\ mCustom \in MergeCustoms
    /\ mTestConfig \in MergeDecls
    /\ mDescribeConfig \in MergeDecls
    /\ mMerged = None
    /\ RunIdle
    /\ RegIdle
    /\ ApiIdle
    /\ PageIdle
    /\ HostIdle

\* One call getMergedConfig(testConfig, describeConfigForTest) in a client
\* constructed with customConfig
Merge ==
    /\ mMerged = None
    /\ mMerged' = Some(getMergedConfig(GlobalConfig(mCustom), mTestConfig,
                                       mDescribeConfig))
    /\ UNCHANGED <<mCustom, mTestConfig, mDescribeConfig, runVars, regVars, apiVars, pageVars, hostVars>>

NextMerge == Merge

SpecMerge == InitMerge /\ [][NextMerge]_vars

(***************************************************************************)
(* SpecReg: the registration pass over a spec file (the overridden         *)
(* describe and it, and the describe.only/describe.skip left as they       *)
(* were), followed by the runs of the registered tests.                    *)
(***************************************************************************)
MaxSuites == 2

MaxRegTests == 2

\* The config objects given to describe in the registration pass
SuiteDecls ==
    {NoDecl,
     Decl([EmptyPartial EXCEPT !.failOnSpy = Some(FALSE)]),
     Decl([EmptyPartial EXCEPT !.throwOnWarning = Some(TRUE)])}

\* The config objects given to it
TestDecls == {NoDecl, Decl([EmptyPartial EXCEPT !.failOnSpy = Some(TRUE)])}

\* An open suite: declared through the overridden describe or not, its config
\* object, and how many suites nested in it have closed
Suite(wrapped, cfg) == [wrapped |-> wrapped, config |-> cfg, kids |-> 0]

InitReg ==
    /\ config \in {GlobalConfig(EmptyPartial),
                   GlobalConfig([EmptyPartial EXCEPT !.failOnSpy = Some(FALSE)])}
    /\ firstTest = 1
    /\ frail = "error"
    /\ RunInit
    /\ RegIdle
    /\ MergeIdle
    /\ ApiIdle
    /\ PageIdle
    /\ HostIdle

\* global.describe(name, configOrFn, fn) up to the call of describeFn: the
\* config object (or {}) is pushed and made current
Describe ==
    /\ regPhase = "registering" /\ nSuites < MaxSuites
    /\ \E describeConfigObj \in SuiteDecls :
         /\ describeConfigStack' = Append(describeConfigStack, describeConfigObj)
         /\ currentDescribeConfig' = describeConfigObj
         /\ openSuites' = Append(openSuites, Suite(TRUE, describeConfigObj))
    /\ nSuites' = nSuites + 1
    /\ UNCHANGED <<tests, regPhase, mergeVars, apiVars, pageVars, hostVars, runVars>>

\* describe.only / describe.skip: the original functions, no stack push
DescribeUnwrapped ==
    /\ regPhase = "registering" /\ nSuites < MaxSuites
    /\ \E cfg \in SuiteDecls : openSuites' = Append(openSuites, Suite(FALSE, cfg))
    /\ nSuites' = nSuites + 1
    /\ UNCHANGED <<describeConfigStack, currentDescribeConfig, tests, regPhase,
                   mergeVars, apiVars, pageVars, hostVars, runVars>>

DescribeEnd_PopsAlways ==
    /\ regPhase = "registering" /\ openSuites # <<>>
    /\ openSuites' =
          LET rest == SubSeq(openSuites, 1, Len(openSuites) - 1)
          IN IF rest = <<>> THEN rest
             ELSE [rest EXCEPT ![Len(rest)].kids = @ + 1]
    /\ LET popped == SubSeq(describeConfigStack, 1, Len(describeConfigStack) - 1)
       IN /\ describeConfigStack' = popped
          /\ currentDescribeConfig' =
                IF Len(popped) > 0 THEN popped[Len(popped)] ELSE NoDecl
    /\ UNCHANGED <<tests, regPhase, nSuites, mergeVars, apiVars, pageVars, hostVars, runVars>>

\* The body of the innermost open suite returns: wrappedDescribeFn pops and
\* restores the previous config; an unwrapped suite just ends
DescribeEnd ==
    /\ regPhase = "registering" /\ openSuites # <<>>
    /\ openSuites' =
          LET rest == SubSeq(openSuites, 1, Len(openSuites) - 1)
          IN IF rest = <<>> THEN rest
             ELSE [rest EXCEPT ![Len(rest)].kids = @ + 1]
    /\ IF openSuites[Len(openSuites)].wrapped
       THEN LET popped == SubSeq(describeConfigStack, 1, Len(describeConfigStack) - 1)
            IN /\ describeConfigStack' = popped
               /\ currentDescribeConfig' =
                     IF Len(popped) > 0 THEN popped[Len(popped)] ELSE NoDecl
       ELSE UNCHANGED <<describeConfigStack, currentDescribeConfig>>
    /\ UNCHANGED <<tests, regPhase, nSuites, mergeVars, apiVars, pageVars, hostVars, runVars>>

\* it / it.only (description, configOrFn, fn): wrapTest closes over testConfig
\* and the current describe config
It ==
    /\ regPhase = "registering" /\ Len(tests) < MaxRegTests
    /\ \E testConfig \in TestDecls :
         tests' = Append(tests,
                    [testConfig |-> testConfig,
                     describeConfigForTest |-> currentDescribeConfig,
                     enclosing |-> openSuites,
                     ran |-> FALSE,
                     usedTestConfig |-> NoDecl,
                     usedDescribeConfig |-> NoDecl,
                     merged |-> defaultConfig])
    /\ UNCHANGED <<describeConfigStack, currentDescribeConfig, openSuites, regPhase,
                   nSuites, mergeVars, apiVars, pageVars, hostVars, runVars>>

\* The spec file has been loaded: the runner starts executing tests
StartRunning ==
    /\ regPhase = "registering" /\ openSuites = <<>>
    /\ regPhase' = "running"
    /\ UNCHANGED <<describeConfigStack, currentDescribeConfig, openSuites, tests,
                   nSuites, mergeVars, apiVars, pageVars, hostVars, runVars>>

SuiteConfigAtRun_ReadAtRun(i) == currentDescribeConfig

\* The describeConfigForTest the wrapper of test i hands to checkConsoleErrors
SuiteConfigAtRun(i) == tests[i].describeConfigForTest

\* The wrapper of test i runs: currentTestConfig = testConfig, and
\* checkConsoleErrors merges it with the captured describe config
RunTest ==
    /\ regPhase = "running"
    /\ \E i \in 1..Len(tests) :
         /\ ~tests[i].ran /\ \A j \in 1..(i - 1) : tests[j].ran
         /\ currentTestConfig' = tests[i].testConfig
         /\ tests' = [tests EXCEPT
                ![i].ran = TRUE,
                ![i].usedTestConfig = tests[i].testConfig,
                ![i].usedDescribeConfig = SuiteConfigAtRun(i),
                ![i].merged = getMergedConfig(config, tests[i].testConfig,
                                              SuiteConfigAtRun(i))]
    /\ UNCHANGED <<describeConfigStack, currentDescribeConfig, openSuites, regPhase,
                   nSuites, mergeVars, apiVars, pageVars, hostVars, envVars, serverVars, counterVars,
                   config, testPath, pc, describeCfg, consoleSpies, orphans,
                   allIssues, windowsWithErrorHandlers, listeners, curWin,
                   mergedConfig, filteredIssues, checked, sent, failures, status,
                   bodyResult>>

NextReg ==
    \/ Describe
    \/ DescribeUnwrapped
    \/ DescribeEnd
    \/ It
    \/ StartRunning
    \/ RunTest

SpecReg == InitReg /\ [][NextReg]_vars


(***************************************************************************)
(* SpecServer: the Aggregator's tasks and the before:run hook called in    *)
(* any order, as cy.task callers and the Cypress runner may call them.     *)
(***************************************************************************)
MaxOps == 3

IssueTypes == {"error", "warn", "info"}

\* The issue lists of the payloads: none, one error, a warning and an info
BatchIssueLists ==
    {<<>>,
     <<[type |-> "error", message |-> TestError]>>,
     <<[type |-> "warn", message |-> Known], [type |-> "info", message |-> TestError]>>}

\* The testPath of a payload: the path of a spec file, none or the empty
\* string, or a path whose base name is empty ('/')
ServerPaths == TestPaths \cup {<<>>, <<"", "">>}

\* The payloads { issues, testPath, logToFile } of processConsoleBatch; a
\* missing issue list takes the branch of the empty one (!issues ||
\* issues.length === 0) and a missing or empty testPath is <<>>
ServerBatches ==
    {[issues |-> is, testPath |-> p, logToFile |-> l]
        : is \in BatchIssueLists, p \in ServerPaths, l \in BOOLEAN}

\* The message of a legacy task: a string or an array of strings
LegacyMessages ==
    {[isArray |-> FALSE, parts |-> <<TestError>>],
     [isArray |-> TRUE, parts |-> <<<<"a">>, <<"b">>>>]}

\* Array.isArray(message) ? message.join(' ') : String(message)
legacyMessageStr(message) ==
    IF message.isArray THEN Join(message.parts, <<SP>>) ELSE message.parts[1]

\* What a caller holding the object returned by getErrorStats sees after the
\* server's details array has become newDetails: the returned object is a
\* shallow copy, its details is the server's array as long as errorStats has
\* not been replaced
Aliased(newDetails) ==
    IF IsSet(returned) /\ returned[1].detailsId = detailsId
    THEN Some([returned[1] EXCEPT !.details = newDetails])
    ELSE returned

ensureLogDirChecks_EveryWrite(created) == 1

\* The fs.existsSync calls one ensureLogDir() makes: none once logDirCreated
\* is set
ensureLogDirChecks(created) == IF created THEN 0 ELSE 1

\* The task processConsoleBatch called with payload b
ProcessConsoleBatchTask(b) ==
    /\ nOps < MaxOps
    /\ \E fault \in {"none", "mkdir", "append"} :
         /\ fault # "none" => nFaults < MaxFaults
         /\ processConsoleBatch(b, fault)
         /\ nFaults' = IF fault = "none" THEN nFaults ELSE nFaults + 1
         /\ taskResult' = IF fault = "mkdir" THEN "threw" ELSE "null"
    /\ srvOp' = "processConsoleBatch"
    /\ srvBatch' = Some(b)
    /\ received' = received \o b.issues
    /\ returned' = Aliased(errorStats'.details)
    /\ dirChecks' = dirChecks +
          (IF Len(b.issues) > 0 /\ b.logToFile /\ b.testPath # <<>>
           THEN ensureLogDirChecks(logDirCreated) ELSE 0)
    /\ nOps' = nOps + 1
    /\ UNCHANGED <<legacyCalls, detailsId, returnedAfter, envVars, clientVars,
                   nTests, nEvents, regVars, mergeVars, pageVars, hostVars>>

\* The legacy task logConsoleError({ message, type })
LogConsoleErrorTask ==
    /\ nOps < MaxOps
    /\ \E message \in LegacyMessages, type \in IssueTypes :
         LET entry == [type |-> type, message |-> legacyMessageStr(message)]
         IN /\ errorStats' =
                  [errors |-> errorStats.errors + (IF type = "error" THEN 1 ELSE 0),
                   warnings |-> errorStats.warnings + (IF type = "error" THEN 0 ELSE 1),
                   details |-> Append(errorStats.details, entry)]
            /\ received' = Append(received, entry)
    /\ returned' = Aliased(errorStats'.details)
    /\ srvOp' = "logConsoleError"
    /\ taskResult' = "null"
    /\ legacyCalls' = legacyCalls + 1
    /\ nOps' = nOps + 1
    /\ UNCHANGED <<srvBatch, detailsId, returnedAfter, dirChecks, logDirCreated, dirExists, logs,
                   envVars, clientVars, counterVars, regVars, mergeVars, pageVars, hostVars>>

\* The legacy task saveConsoleErrorToFile({ message, type, testPath }): every
\* exception is caught, fs.mkdirSync's included
SaveConsoleErrorToFileTask ==
    /\ nOps < MaxOps
    /\ \E message \in LegacyMessages, type \in IssueTypes,
          path \in ServerPaths, fault \in {"none", "mkdir", "append"} :
         /\ fault # "none" => nFaults < MaxFaults
         /\ nFaults' = IF fault = "none" THEN nFaults ELSE nFaults + 1
         /\ IF path = <<>>
            THEN fault = "none" /\ UNCHANGED <<logDirCreated, dirExists, logs, dirChecks>>
            ELSE /\ fault = "mkdir" => NeedsMkdir
                 /\ dirChecks' = dirChecks + ensureLogDirChecks(logDirCreated)
                 /\ logDirCreated' = (IF fault = "mkdir" THEN logDirCreated ELSE TRUE)
                 /\ dirExists' = (dirExists \/ fault # "mkdir")
                 /\ logs' = IF fault = "none"
                            THEN [logs EXCEPT ![testName(path)] =
                                    Append(@, [type |-> toUpperCase(type),
                                               message |-> legacyMessageStr(message)])]
                            ELSE logs
    /\ srvOp' = "saveConsoleErrorToFile"
    /\ taskResult' = "null"
    /\ nOps' = nOps + 1
    /\ UNCHANGED <<errorStats, srvBatch, received, legacyCalls, detailsId, returned,
                   returnedAfter, envVars, clientVars, nTests, nEvents, regVars,
                   mergeVars, pageVars, hostVars>>

\* The task getErrorStats(): return { ...errorStats }
GetErrorStatsTask ==
    /\ nOps < MaxOps
    /\ returned' = Some([errors |-> errorStats.errors,
                         warnings |-> errorStats.warnings,
                         details |-> errorStats.details,
                         detailsId |-> detailsId,
                         asReturned |-> errorStats])
    /\ returnedAfter' = IF srvOp = "getErrorStats" THEN returnedAfter ELSE srvOp
    /\ srvOp' = "getErrorStats"
    /\ taskResult' = "stats"
    /\ nOps' = nOps + 1
    /\ UNCHANGED <<serverVars, srvBatch, received, legacyCalls, detailsId, dirChecks,
                   envVars, clientVars, counterVars, regVars, mergeVars, pageVars, hostVars>>

ResetErrorStatsTask_KeepsDetails ==
    /\ nOps < MaxOps
    /\ errorStats' = [errors |-> 0, warnings |-> 0, details |-> errorStats.details]
    /\ detailsId' = detailsId + 1
    /\ received' = <<>>
    /\ legacyCalls' = 0
    /\ srvOp' = "resetErrorStats"
    /\ taskResult' = "null"
    /\ nOps' = nOps + 1
    /\ UNCHANGED <<logDirCreated, dirExists, logs, srvBatch, returned, returnedAfter,
                   dirChecks, envVars, clientVars, counterVars, regVars, mergeVars, pageVars, hostVars>>

\* The task resetErrorStats(): errorStats is replaced by a new object
ResetErrorStatsTask ==
    /\ nOps < MaxOps
    /\ errorStats' = ZeroStats
    /\ detailsId' = detailsId + 1
    /\ received' = <<>>
    /\ legacyCalls' = 0
    /\ srvOp' = "resetErrorStats"
    /\ taskResult' = "null"
    /\ nOps' = nOps + 1
    /\ UNCHANGED <<logDirCreated, dirExists, logs, srvBatch, returned, returnedAfter,
                   dirChecks, envVars, clientVars, counterVars, regVars, mergeVars, pageVars, hostVars>>

\* on('before:run'): new statistics, logDirCreated = false, ensureLogDir()
\* (fs.mkdirSync may throw out of the hook)
BeforeRun ==
    /\ nOps < MaxOps
    /\ errorStats' = ZeroStats
    /\ detailsId' = detailsId + 1
    /\ received' = <<>>
    /\ legacyCalls' = 0
    /\ \E fault \in {"none", "mkdir"} :
         /\ fault = "mkdir" => (nFaults < MaxFaults /\ ~dirExists)
         /\ nFaults' = IF fault = "none" THEN nFaults ELSE nFaults + 1
         /\ logDirCreated' = (fault = "none")
         /\ dirExists' = (dirExists \/ fault = "none")
         /\ taskResult' = IF fault = "mkdir" THEN "threw" ELSE "none"
    /\ dirChecks' = ensureLogDirChecks(FALSE)
    /\ srvOp' = "beforeRun"
    /\ nOps' = nOps + 1
    /\ UNCHANGED <<logs, srvBatch, returned, returnedAfter,
                   envVars, clientVars, nTests, nEvents, regVars, mergeVars, pageVars, hostVars>>

InitServer ==
    /\ RunIdle
    /\ RegIdle
    /\ MergeIdle
    /\ ApiIdle
    /\ PageIdle
    /\ HostIdle

NextServer ==
    \/ \E b \in ServerBatches : ProcessConsoleBatchTask(b)
    \/ LogConsoleErrorTask
    \/ SaveConsoleErrorToFileTask
    \/ GetErrorStatsTask
    \/ ResetErrorStatsTask
    \/ BeforeRun

SpecServer == InitServer /\ [][NextServer]_vars


(***************************************************************************)
(* SpecAux: the tasks that report or log without counting, setDebugMode    *)
(* and the before:run hook, called in any order after some legacy          *)
(* logConsoleError calls.                                                  *)
(***************************************************************************)
\* The argument of setDebugMode
DebugValues == BOOLEAN

SetDebugModeTask_ResetsStats ==
    /\ nOps < MaxOps
    /\ \E debug \in DebugValues : debugMode' = debug
    /\ errorStats' = ZeroStats
    /\ srvOp' = "setDebugMode"
    /\ taskResult' = "null"
    /\ nOps' = nOps + 1
    /\ UNCHANGED <<logDirCreated, dirExists, logs, pending, srvBatch, received, legacyCalls,
                   detailsId, returned, returnedAfter, dirChecks, envVars, clientVars,
                   counterVars, regVars, mergeVars, pageVars>>

\* The task setDebugMode(debug)
SetDebugModeTask ==
    /\ nOps < MaxOps
    /\ \E debug \in DebugValues : debugMode' = debug
    /\ srvOp' = "setDebugMode"
    /\ taskResult' = "null"
    /\ nOps' = nOps + 1
    /\ UNCHANGED <<serverVars, pending, srvBatch, received, legacyCalls, detailsId, returned,
                   returnedAfter, dirChecks, envVars, clientVars, counterVars,
                   regVars, mergeVars, pageVars>>

\* The legacy task notifyCriticalError({ message, type }): a line on the
\* server's console
NotifyCriticalErrorTask ==
    /\ nOps < MaxOps
    /\ \E message \in LegacyMessages, type \in IssueTypes : TRUE
    /\ srvOp' = "notifyCriticalError"
    /\ taskResult' = "null"
    /\ nOps' = nOps + 1
    /\ UNCHANGED <<serverVars, hostVars, srvBatch, received, legacyCalls, detailsId, returned,
                   returnedAfter, dirChecks, envVars, clientVars, counterVars,
                   regVars, mergeVars, pageVars>>

NextAux ==
    \/ LogConsoleErrorTask
    \/ SaveConsoleErrorToFileTask
    \/ NotifyCriticalErrorTask
    \/ GetErrorStatsTask
    \/ SetDebugModeTask
    \/ BeforeRun

SpecAux == InitServer /\ [][NextAux]_vars

(***************************************************************************)
(* SpecAsync: processConsoleBatch calls that overlap.  A call runs up to   *)
(* await appendToLogFile(...) in one piece and is resumed when its append  *)
(* has settled; other calls start or resume in between.                    *)
(***************************************************************************)
MaxBatches == 3

\* The payloads of the overlapping calls
AsyncBatches == {b \in ServerBatches : b.testPath \in TestPaths}

\* processConsoleBatch(b) up to its first suspension: the statistics, then
\* ensureLogDir() (fs.mkdirSync may throw) and the append handed to fs
BatchStart(b) ==
    /\ nOps < MaxBatches
    /\ sent' = Append(sent, b)
    /\ nOps' = nOps + 1
    /\ IF Len(b.issues) = 0
       THEN UNCHANGED <<serverVars, pending, nFaults>>
       ELSE /\ errorStats' = StatsAfter(errorStats, b.issues)
            /\ IF b.logToFile /\ b.testPath # <<>>
               THEN \E fault \in {"none", "mkdir"} :
                       /\ fault = "mkdir" => (nFaults < MaxFaults /\ NeedsMkdir)
                       /\ nFaults' = IF fault = "none" THEN nFaults ELSE nFaults + 1
                       /\ logDirCreated' = (IF fault = "mkdir" THEN logDirCreated ELSE TRUE)
                       /\ dirExists' = (dirExists \/ fault # "mkdir")
                       /\ pending' = IF fault = "mkdir" THEN pending ELSE Append(pending, b)
               ELSE UNCHANGED <<logDirCreated, dirExists, pending, nFaults>>
            /\ logs' = logs
    /\ UNCHANGED <<regVars, mergeVars, pageVars, debugMode, srvOp, srvBatch, taskResult, received,
                   legacyCalls, detailsId, returned, returnedAfter, dirChecks,
                   envVars, config, testPath, pc, currentTestConfig, describeCfg, consoleSpies,
                   orphans, allIssues, windowsWithErrorHandlers, listeners, curWin,
                   mergedConfig, filteredIssues, checked, failures, status, bodyResult,
                   nTests, nEvents>>

AppendDone_StatsAfterAwait ==
    /\ \E i \in 1..Len(pending), written \in BOOLEAN :
         /\ ~written => nFaults < MaxFaults
         /\ nFaults' = IF written THEN nFaults ELSE nFaults + 1
         /\ logs' = IF written
                    THEN [logs EXCEPT ![testName(pending[i].testPath)] =
                            @ \o LogLines(pending[i].issues)]
                    ELSE logs
         /\ errorStats' = StatsAfter(errorStats, pending[i].issues)
         /\ pending' = SubSeq(pending, 1, i - 1) \o SubSeq(pending, i + 1, Len(pending))
    /\ UNCHANGED <<regVars, mergeVars, apiVars, pageVars, debugMode, logDirCreated,
                   dirExists, envVars, clientVars, nTests, nEvents>>

\* fs.promises.appendFile of a suspended call settles (a rejection is caught
\* in appendToLogFile) and the call runs to its return
AppendDone ==
    /\ \E i \in 1..Len(pending), written \in BOOLEAN :
         /\ ~written => nFaults < MaxFaults
         /\ nFaults' = IF written THEN nFaults ELSE nFaults + 1
         /\ logs' = IF written
                    THEN [logs EXCEPT ![testName(pending[i].testPath)] =
                            @ \o LogLines(pending[i].issues)]
                    ELSE logs
         /\ pending' = SubSeq(pending, 1, i - 1) \o SubSeq(pending, i + 1, Len(pending))
    /\ UNCHANGED <<regVars, mergeVars, apiVars, pageVars, debugMode, errorStats, logDirCreated,
                   dirExists, envVars, clientVars, nTests, nEvents>>

InitAsync ==
    /\ RunIdle
    /\ RegIdle
    /\ MergeIdle
    /\ ApiIdle
    /\ PageIdle
    /\ HostIdle

NextAsync ==
    \/ \E b \in AsyncBatches : BatchStart(b)
    \/ AppendDone

SpecAsync == InitAsync /\ [][NextAsync]_vars

(***************************************************************************)
(* Properties.                                                             *)
(***************************************************************************)
Range(f) == {f[i] : i \in DOMAIN f}

CdOf(decl) == OrElse(decl.consoleDaemon, EmptyPartial)

\* The value of the innermost layer that sets a field: test, suite, global,
\* library default
Innermost(t, s, g, d) == OrElse(t, OrElse(s, OrElse(g, d)))

\* A string matches a whitelist: a string entry is contained in it, a
\* pattern entry tests true on it
Whitelisted(str, whitelist) ==
    \E i \in 1..Len(whitelist) :
        IF whitelist[i].re /\ whitelist[i].anchored
        THEN StartsWith(str, whitelist[i].src)
        ELSE Includes(str, whitelist[i].src)

TestOver == pc = "idle" /\ status \in {"passed", "failed"}

\* C1: a test whose body completed without failure fails, with the single
\* ConsoleErrors failure listing the filtered issues, iff the filtered set is
\* non-empty and merged failOnSpy is true; otherwise it passes.
C1_FailsIffFilteredAndFailOnSpy ==
    (TestOver /\ bodyResult = "done") =>
        IF Len(filteredIssues) > 0 /\ mergedConfig.failOnSpy
        THEN status = "failed" /\ failures = <<ConsoleErrorsFailure(filteredIssues)>>
        ELSE status = "passed" /\ failures = <<>>

\* C2: when the filtered set of a test is empty the wrapped test's outcome is
\* the body's: a body that completed gives a passed test with no failure.
C2_EmptyFilteredKeepsBodyOutcome ==
    (TestOver /\ bodyResult = "done" /\ IsSet(checked) /\ filteredIssues = <<>>)
        => (status = "passed" /\ failures = <<>>)

IsCandidate(issue) ==
    \/ issue.type = "error"
    \/ issue.type = "warn" /\ mergedConfig.throwOnWarning

\* C3: the filtered set holds exactly the accumulated issues that are
\* error-typed, or warn-typed with merged throwOnWarning true, and not
\* whitelisted; a ConsoleErrors failure lists the filtered set only, so no
\* warning contributes with throwOnWarning false and no info issue ever does.
C3_CandidateSet ==
    IsSet(checked) =>
        LET issues == checked[1]
            kept == {i \in 1..Len(issues) :
                        /\ IsCandidate(issues[i])
                        /\ ~Whitelisted(MatchString(issues[i]), mergedConfig.whitelist)}
        IN /\ \A i \in 1..Len(filteredIssues) : IsCandidate(filteredIssues[i])
           /\ \A i \in kept : issues[i] \in Range(filteredIssues)
           /\ Len(filteredIssues) = Cardinality(kept)
           /\ \A i \in 1..Len(failures) :
                 failures[i].name = "ConsoleErrors" =>
                     failures[i] = ConsoleErrorsFailure(filteredIssues)

\* C3 witness: a test with 'warn' tracked, failOnSpy true and throwOnWarning
\* false passed although a warning that is not whitelisted (and an info
\* issue) had been accumulated.
C3_Witness ==
    /\ TestOver /\ status = "passed" /\ IsSet(checked)
    /\ mergedConfig.failOnSpy /\ ~mergedConfig.throwOnWarning
    /\ "warn" \in Tracked(config)
    /\ \E i \in 1..Len(checked[1]) :
          /\ checked[1][i].type = "warn"
          /\ ~Whitelisted(MatchString(checked[1][i]), mergedConfig.whitelist)
    /\ \E i \in 1..Len(checked[1]) : checked[1][i].type = "info"

C4_WitnessFailing ==
    /\ TestOver /\ IsSet(checked) /\ mergedConfig.failOnSpy
    /\ Len(failures) = 1 /\ failures[1].name = "ConsoleErrors"
    /\ \E i \in 1..Len(checked[1]) :
          /\ checked[1][i].type = "error"
          /\ \E k \in 1..Len(mergedConfig.whitelist) :
                /\ mergedConfig.whitelist[k].re
                /\ StartsWith(MatchString(checked[1][i]), mergedConfig.whitelist[k].src)

\* C10: a test surfaces at most one failure, and when its body failed that
\* failure is the body's.
C10_OneFailureBodyFirst ==
    /\ Len(failures) <= 1
    /\ bodyResult = "failed" => failures = <<BodyFailure>>

\* C10 witness: the body failed after a console.error had been recorded by
\* the spy, with failOnSpy true for the test.
C10_Witness ==
    /\ TestOver /\ bodyResult = "failed"
    /\ Len(consoleSpies["error"].calls) > 0
    /\ getMergedConfig(config, currentTestConfig, describeCfg).failOnSpy


\* What the merge of the three layers must give when only the consoleDaemon
\* objects are read: scalars from the innermost layer that sets them, the
\* whitelists concatenated global, suite, test
ExpectedMerged(custom, suiteCd, testCd) ==
    [failOnSpy |-> Innermost(testCd.failOnSpy, suiteCd.failOnSpy, custom.failOnSpy,
                             defaultConfig.failOnSpy),
     logToFile |-> Innermost(testCd.logToFile, suiteCd.logToFile, custom.logToFile,
                             defaultConfig.logToFile),
     methodsToTrack |-> Innermost(testCd.methodsToTrack, suiteCd.methodsToTrack,
                             custom.methodsToTrack, defaultConfig.methodsToTrack),
     throwOnWarning |-> Innermost(testCd.throwOnWarning, suiteCd.throwOnWarning,
                             custom.throwOnWarning, defaultConfig.throwOnWarning),
     whitelist |-> OrElse(custom.whitelist, <<>>) \o OrElse(suiteCd.whitelist, <<>>)
                   \o OrElse(testCd.whitelist, <<>>),
     debug |-> Innermost(testCd.debug, suiteCd.debug, custom.debug,
                         defaultConfig.debug)]

\* C5: merged failOnSpy and throwOnWarning are those of the innermost layer
\* that sets them, in the order default < global < suite < test.
C5_ScalarPrecedence ==
    IsSet(mMerged) =>
        /\ mMerged[1].failOnSpy =
              Innermost(CdOf(mTestConfig).failOnSpy, CdOf(mDescribeConfig).failOnSpy,
                        mCustom.failOnSpy, TRUE)
        /\ mMerged[1].throwOnWarning =
              Innermost(CdOf(mTestConfig).throwOnWarning,
                        CdOf(mDescribeConfig).throwOnWarning,
                        mCustom.throwOnWarning, FALSE)

\* C5 witness: test-level failOnSpy false over suite-level true over global
\* true merges to false.
C5_Witness ==
    /\ IsSet(mMerged)
    /\ CdOf(mTestConfig).failOnSpy = Some(FALSE)
    /\ CdOf(mDescribeConfig).failOnSpy = Some(TRUE)
    /\ mCustom.failOnSpy = Some(TRUE)
    /\ mMerged[1].failOnSpy = FALSE

\* C8: the merged whitelist is the global, suite and test whitelists
\* concatenated in that order, so every entry of every level is in it.
C8_WhitelistConcatenated ==
    IsSet(mMerged) =>
        /\ mMerged[1].whitelist =
              OrElse(mCustom.whitelist, <<>>)
              \o OrElse(CdOf(mDescribeConfig).whitelist, <<>>)
              \o OrElse(CdOf(mTestConfig).whitelist, <<>>)
        /\ Range(OrElse(mCustom.whitelist, <<>>)) \subseteq Range(mMerged[1].whitelist)

\* C8 witness: global, suite and test each give one entry, all three merged.
C8_Witness ==
    /\ IsSet(mMerged)
    /\ mCustom.whitelist = Some(<<WlG>>)
    /\ CdOf(mDescribeConfig).whitelist = Some(<<WlA>>)
    /\ CdOf(mTestConfig).whitelist = Some(<<WlB>>)
    /\ mMerged[1].whitelist = <<WlG, WlA, WlB>>

HasStrayKey == IsSet(mTestConfig.failOnSpy) \/ IsSet(mDescribeConfig.failOnSpy)

\* C9: a failOnSpy placed on a declaration's config object beside (or
\* without) consoleDaemon changes nothing: the merged configuration is the
\* one the consoleDaemon objects alone give.
C9_OnlyConsoleDaemonKey ==
    (IsSet(mMerged) /\ HasStrayKey) =>
        mMerged[1] = ExpectedMerged(mCustom, CdOf(mDescribeConfig), CdOf(mTestConfig))

\* C9 witness: a test declared with { failOnSpy: false } and no consoleDaemon
\* key, nothing else setting failOnSpy, merges to failOnSpy true.
C9_Witness ==
    /\ IsSet(mMerged)
    /\ mTestConfig = [consoleDaemon |-> None, failOnSpy |-> Some(FALSE)]
    /\ ~IsSet(CdOf(mDescribeConfig).failOnSpy) /\ ~IsSet(mDescribeConfig.failOnSpy)
    /\ ~IsSet(mCustom.failOnSpy)
    /\ mMerged[1].failOnSpy = TRUE

RECURSIVE InnermostWrapped(_)
\* The config object of the innermost suite of a nest that was declared
\* through the overridden describe, {} when there is none
InnermostWrapped(suites) ==
    IF suites = <<>> THEN NoDecl
    ELSE IF suites[Len(suites)].wrapped THEN suites[Len(suites)].config
    ELSE InnermostWrapped(SubSeq(suites, 1, Len(suites) - 1))

\* C6: a test without override inside two nested suites, the outer one
\* setting failOnSpy false and the inner one not setting failOnSpy, runs with
\* merged failOnSpy false.
C6_OuterSuiteFlowsThrough ==
    \A i \in 1..Len(tests) :
        (/\ tests[i].ran
         /\ Len(tests[i].enclosing) = 2
         /\ tests[i].enclosing[1].wrapped /\ tests[i].enclosing[2].wrapped
         /\ CdOf(tests[i].enclosing[1].config).failOnSpy = Some(FALSE)
         /\ ~IsSet(CdOf(tests[i].enclosing[2].config).failOnSpy)
         /\ ~IsSet(CdOf(tests[i].testConfig).failOnSpy))
        => tests[i].merged.failOnSpy = FALSE

C11_CollectedOnBothPaths ==
    (TestOver /\ bodyResult \in {"done", "failed"}) => IsSet(checked)

\* C12: once a test has ended, on any exit path, no spy is left stored and
\* attached.
C12_NoObserverAfterTest ==
    TestOver => \A m \in Methods : ~consoleSpies[m].live

\* C13: a test sends at most one processConsoleBatch call; once the check
\* has run, it has sent none when the filtered set is empty and otherwise
\* exactly one, whose issues are the filtered issues in order.
C13_OneBatchPerTest ==
    /\ Len(sent) <= 1
    /\ IsSet(checked) =>
          IF filteredIssues = <<>> THEN sent = <<>>
          ELSE /\ Len(sent) = 1
               /\ sent[1].testPath = testPath
               /\ sent[1].logToFile = config.logToFile
               /\ Len(sent[1].issues) = Len(filteredIssues)
               /\ \A i \in 1..Len(filteredIssues) :
                     /\ sent[1].issues[i].type = filteredIssues[i].type
                     /\ sent[1].issues[i].message = MatchString(filteredIssues[i])

\* C13 witness: a test ended with two filtered issues sent in one call.
C13_Witness ==
    /\ TestOver /\ IsSet(checked)
    /\ Len(filteredIssues) = 2
    /\ Len(sent) = 1 /\ Len(sent[1].issues) = 2

IsSuffix(s, t) == Len(s) <= Len(t) /\ SubSeq(t, Len(t) - Len(s) + 1, Len(t)) = s

\* The Aggregator has finished with batch b: its issues are the last entries
\* of the statistics and, when a log was due and no write failed, the last
\* lines of the test's log file
ReportLanded(b) ==
    /\ IsSuffix([i \in 1..Len(b.issues) |->
                    [type |-> b.issues[i].type, message |-> b.issues[i].message]],
                errorStats.details)
    /\ (b.logToFile /\ b.testPath # <<>> /\ nFaults = 0) =>
          IsSuffix([i \in 1..Len(b.issues) |->
                      [type |-> toUpperCase(b.issues[i].type),
                       message |-> b.issues[i].message]],
                   logs[testName(b.testPath)])

\* The wrapper is at or past the failure decision of checkConsoleErrors
AtOrPastDecision ==
    \/ pc \in {"evaluate", "cleanup"}
    \/ TestOver /\ status = "passed"
    \/ TestOver /\ failures # <<>> /\ failures[1].name \in {"ConsoleErrors", "RestoreFailure"}
                /\ IsSet(checked)

\* C14: whenever the wrapper is at the failure decision or past it, the
\* batch the test sent has been fully processed by the Aggregator, log
\* append included.
C14_DecisionAfterReport ==
    (AtOrPastDecision /\ sent # <<>>) => ReportLanded(sent[1])

\* C14 witness: a test failed on console issues after its report was logged.
C14_Witness ==
    /\ TestOver /\ sent # <<>> /\ nFaults = 0
    /\ failures # <<>> /\ failures[1].name = "ConsoleErrors"
    /\ sent[1].logToFile
    /\ Len(logs[testName(testPath)]) >= Len(sent[1].issues)

\* C15: every window that has been set up carries exactly one 'error'
\* listener of the plugin, every other window none, and an uncaught error
\* event adds exactly one issue.
C15_OneListenerPerWindow ==
    [][/\ \A w \in Windows :
            listeners'[w] = IF w \in windowsWithErrorHandlers' THEN 1 ELSE 0
       /\ UncaughtError => Len(allIssues') = Len(allIssues) + 1]_vars

\* C15 witness: in the second test on the same window, set up a second time,
\* one uncaught error has added one issue.
C15_Witness ==
    /\ nTests = 2 /\ pc = "body" /\ curWin = "w1"
    /\ windowsWithErrorHandlers = {"w1"}
    /\ listeners["w1"] = 1
    /\ allIssues = <<UncaughtIssue(<<"boom">>)>>

ScenarioError == Issue("error", <<StrArg(TestError)>>, TestError)

ScenarioWarning == Issue("warn", <<StrArg(Known)>>, Known)

ScenarioUncaught == UncaughtIssue(<<"boom">>)

\* The first test of the run was the scenario's: with the merged whitelist
\* 'known warning' and no fault, it emitted one console.error, one
\* console.warn('known warning') and one uncaught error, and its body
\* completed
ScenarioRan ==
    /\ nTests = 1 /\ nFaults = 0 /\ bodyResult = "done" /\ IsSet(checked)
    /\ Len(checked[1]) = 3
    /\ Range(checked[1]) = {ScenarioError, ScenarioWarning, ScenarioUncaught}
    /\ mergedConfig.whitelist = <<StrEntry(Known)>>

\* The test or, the test being silent, its suite overrides failOnSpy to false
OverrideOff ==
    \/ CdOf(currentTestConfig).failOnSpy = Some(FALSE)
    \/ /\ ~IsSet(CdOf(currentTestConfig).failOnSpy)
       /\ CdOf(describeCfg).failOnSpy = Some(FALSE)

NoOverride == currentTestConfig = NoDecl /\ describeCfg = NoDecl

C16_WitnessFailing ==
    /\ ScenarioRan /\ TestOver /\ NoOverride
    /\ status = "failed"
    /\ Len(failures[1].lines) = 2

CountOfType(entries, type) ==
    Cardinality({i \in 1..Len(entries) : entries[i].type = type})

\* C17: after processConsoleBatch calls only since the last reset, errors is
\* the number of error-typed issues received, warnings the number of
\* warn-typed ones (info-typed issues count nowhere), and details holds every
\* received issue in arrival order.
C17_CountsByType ==
    legacyCalls = 0 =>
        /\ errorStats.errors = CountOfType(received, "error")
        /\ errorStats.warnings = CountOfType(received, "warn")
        /\ errorStats.details = received

\* C18: right after resetErrorStats or the before:run hook the statistics
\* are {errors: 0, warnings: 0, details: []}, whatever was processed before
\* (so a second reset changes nothing), and a getErrorStats called then
\* returns exactly that.
C18_ResetGivesZero ==
    /\ srvOp \in {"resetErrorStats", "beforeRun"} => errorStats = ZeroStats
    /\ (IsSet(returned) /\ returnedAfter \in {"resetErrorStats", "beforeRun"}) =>
          returned[1].asReturned = [errors |-> 0, warnings |-> 0, details |-> <<>>]

\* C18 witness: issues had been logged and counted, then the statistics were
\* reset, and the getErrorStats that followed returned zeros.
C18_Witness ==
    /\ srvOp = "getErrorStats" /\ returnedAfter = "resetErrorStats"
    /\ IsSet(returned)
    /\ returned[1].asReturned = [errors |-> 0, warnings |-> 0, details |-> <<>>]
    /\ logs["login.cy"] # <<>>

\* C19: a processConsoleBatch call whose issue list is empty or missing
\* changes neither the statistics nor logDirCreated nor the log directory nor
\* any log file, and returns null.
C19_EmptyBatchNoEffect ==
    [][\A b \in ServerBatches :
          (Len(b.issues) = 0 /\ ProcessConsoleBatchTask(b)) =>
              /\ UNCHANGED <<errorStats, logDirCreated, dirExists, logs>>
              /\ taskResult' = "null"]_vars

\* C19 witness: an empty batch with logToFile and a test path was processed
\* after issues had been counted; no directory was created.
C19_Witness ==
    /\ srvOp = "processConsoleBatch" /\ IsSet(srvBatch)
    /\ srvBatch[1].issues = <<>> /\ srvBatch[1].logToFile /\ srvBatch[1].testPath # <<>>
    /\ taskResult = "null"
    /\ errorStats.errors > 0
    /\ ~logDirCreated

\* C20: the object a getErrorStats call returned keeps the errors, warnings
\* and details it had when it was returned, whatever is processed afterwards.
C20_SnapshotFrozen ==
    IsSet(returned) =>
        /\ returned[1].errors = returned[1].asReturned.errors
        /\ returned[1].warnings = returned[1].asReturned.warnings
        /\ returned[1].details = returned[1].asReturned.details

\* C21: a processConsoleBatch call returns null whatever happens to the
\* creation of the log directory or to the append: no failure of a write
\* leaves the task.
C21_WriteFailuresCaught ==
    srvOp = "processConsoleBatch" => taskResult = "null"

\* C29: no failure to attach or release a spy ever surfaces as a failure of
\* the test, in setupConsoleSpy and in cleanupSpies alike.
C29_SpyFailuresNeverSurface ==
    \A i \in 1..Len(failures) : failures[i].name # "RestoreFailure"

IsPrefix(s, t) == Len(s) <= Len(t) /\ SubSeq(t, 1, Len(s)) = s

\* The log lines of a batch's issues, one per issue in batch order
LinesOf(issues) ==
    [i \in 1..Len(issues) |->
        [type |-> toUpperCase(issues[i].type), message |-> issues[i].message]]

\* The log file the payload's testPath names
LogNameOf(path) == IF path = <<>> \/ path[1] = "" THEN "unknown_test" ELSE path[1]

\* C22: every step leaves what each log file held as a prefix of what it
\* holds, and every processConsoleBatch call with logToFile set (issues
\* present, no write failing) appends exactly one line per issue, in batch
\* order, to its log file and touches no other file.
C22_LogAppendOnly ==
    [][/\ \A n \in LogNames : IsPrefix(logs[n], logs'[n])
       /\ \A b \in ServerBatches :
             (/\ ProcessConsoleBatchTask(b)
              /\ nFaults' = nFaults
              /\ b.logToFile /\ Len(b.issues) > 0) =>
                 logs' = [logs EXCEPT ![LogNameOf(b.testPath)] = @ \o LinesOf(b.issues)]
      ]_vars

C24_UnknownTestFallback ==
    [][\A b \in ServerBatches :
          (/\ ProcessConsoleBatchTask(b)
           /\ nFaults' = nFaults
           /\ b.logToFile /\ Len(b.issues) > 0
           /\ (b.testPath = <<>> \/ b.testPath[1] = "")) =>
              logs'["unknown_test"] = logs["unknown_test"] \o LinesOf(b.issues)
      ]_vars

\* C25: a task called a second time in a row with the same payload leaves
\* the statistics and the logs as the first call left them.
C25_TasksIdempotent ==
    [][/\ \A b \in ServerBatches :
             (/\ ProcessConsoleBatchTask(b)
              /\ srvOp = "processConsoleBatch" /\ srvBatch = Some(b)) =>
                 UNCHANGED <<errorStats, logs>>
       /\ (ResetErrorStatsTask /\ srvOp = "resetErrorStats") =>
             UNCHANGED <<errorStats, logs>>
       /\ GetErrorStatsTask => UNCHANGED <<errorStats, logs>>
      ]_vars

RECURSIVE RecordedCalls(_)
RecordedCalls(methods) ==
    IF methods = <<>> THEN <<>>
    ELSE [i \in 1..Len(consoleSpies[Head(methods)].calls) |->
             [type |-> IF Head(methods) = "error" THEN "error"
                       ELSE IF Head(methods) = "warn" THEN "warn" ELSE "info",
              message |-> consoleSpies[Head(methods)].calls[i]]]
         \o RecordedCalls(Tail(methods))

MadeInTest == {i \in 1..Len(made) : made[i].test = nTests /\ made[i].phase # "hook"}

InIssues(i, issues) ==
    \E k \in 1..Len(issues) :
        /\ issues[k].message = made[i].args
        /\ issues[k].type = (IF made[i].method = "error" THEN "error"
                             ELSE IF made[i].method = "warn" THEN "warn" ELSE "info")

\* C28: once the collection step of a test has run without any spy failure,
\* every call of a tracked method the page made since the start of the test
\* is among the collected issues.
C28_NoCallLost ==
    (IsSet(checked) /\ nFaults = 0) =>
        \A i \in 1..Len(made) :
            (made[i].test = nTests /\ made[i].phase # "hook"
                /\ made[i].method \in Tracked(config))
            => InIssues(i, checked[1])

\* C31: the logToFile flag of every report a test sent is the logToFile of
\* the test's merged config.
C31_BatchCarriesMergedLogToFile ==
    \A k \in 1..Len(sent) : sent[k].logToFile = mergedConfig.logToFile

\* The issues the error listener pushes for the drawn events
UncaughtIssues == {UncaughtIssue(ev[1]) : ev \in FilterEvents \ {None}}

\* The description the listener made the issue from
DescriptionOf(issue) ==
    CHOOSE d \in {ev[1] : ev \in FilterEvents \ {None}} : UncaughtIssue(d) = issue

\* p occurs in s, letter for letter
OccursIn(p, s) ==
    \E at \in 1..(Len(s) + 1) :
        \A j \in 1..Len(p) : at + j - 1 <= Len(s) /\ s[at + j - 1] = p[j]

\* The entry matches the string
EntryMatches(entry, s) ==
    IF entry.re
    THEN (IF entry.anchored THEN Len(entry.src) <= Len(s) /\ OccursIn(entry.src, SubSeq(s, 1, Len(entry.src)))
          ELSE OccursIn(entry.src, s))
    ELSE OccursIn(entry.src, s)

\* How often the issue is in the sequence
CountOf(issue, issues) == Cardinality({k \in 1..Len(issues) : issues[k] = issue})

\* C32: an uncaught error is an error-typed issue that the filter drops
\* exactly when an entry of the merged whitelist matches the description of
\* the event (and not the text wrapped around it).
C32_UncaughtMatchedByDescription ==
    IsSet(checked) =>
        \A k \in 1..Len(checked[1]) :
            checked[1][k] \in UncaughtIssues =>
                /\ checked[1][k].type = "error"
                /\ (CountOf(checked[1][k], filteredIssues) = 0)
                      <=> \E w \in 1..Len(mergedConfig.whitelist) :
                             EntryMatches(mergedConfig.whitelist[w],
                                          DescriptionOf(checked[1][k]))

\* The issues the filter looks at: errors, and warnings under throwOnWarning
Candidates ==
    {k \in 1..Len(checked[1]) :
        \/ checked[1][k].type = "error"
        \/ checked[1][k].type = "warn" /\ mergedConfig.throwOnWarning}

\* A string entry of the merged whitelist occurs in the issue's match string
StringEntryOccurs(issue) ==
    \E w \in 1..Len(mergedConfig.whitelist) :
        /\ ~mergedConfig.whitelist[w].re
        /\ OccursIn(mergedConfig.whitelist[w].src, MatchString(issue))

\* A pattern entry of the merged whitelist matches the issue's match string
PatternEntryMatches(issue) ==
    \E w \in 1..Len(mergedConfig.whitelist) :
        /\ mergedConfig.whitelist[w].re
        /\ EntryMatches(mergedConfig.whitelist[w], MatchString(issue))

\* The whitelist a level declares holds the empty string
DeclaresEmptyEntry(whitelist) ==
    \E w \in 1..Len(whitelist) : whitelist[w] = StrEntry(<<>>)

EmptyEntryAtSomeLevel ==
    \/ DeclaresEmptyEntry(config.whitelist)
    \/ DeclaresEmptyEntry(OrElse(OrElse(describeCfg.consoleDaemon, EmptyPartial).whitelist, <<>>))
    \/ DeclaresEmptyEntry(OrElse(OrElse(currentTestConfig.consoleDaemon, EmptyPartial).whitelist, <<>>))

\* C40: a candidate issue is dropped by the filter exactly when a string
\* entry occurs in its match string letter for letter (or a pattern entry
\* matches); with the empty string declared at any level the filtered set is
\* empty, nothing is reported and the test does not fail on console issues.
C40_StringEntryIsSubstring ==
    IsSet(checked) =>
        /\ \A k \in Candidates :
              (CountOf(checked[1][k], filteredIssues) = 0)
                 <=> (StringEntryOccurs(checked[1][k]) \/ PatternEntryMatches(checked[1][k]))
        /\ \A k \in 1..Len(filteredIssues) :
              \E c \in Candidates : checked[1][c] = filteredIssues[k]
        /\ EmptyEntryAtSomeLevel =>
              /\ filteredIssues = <<>>
              /\ sent = <<>>
              /\ errorStats = ZeroStats
              /\ \A i \in 1..Len(failures) : failures[i].name # "ConsoleErrors"

\* C40 witness: the test ended without a failure although its spy recorded
\* console.error calls, the empty string being declared by the suite only;
\* the other levels declare entries that differ from the message in case.
C40_Witness ==
    /\ pc = "idle" /\ status = "passed" /\ IsSet(checked)
    /\ Len(checked[1]) = 3 /\ Cardinality(Candidates) = 3
    /\ ~DeclaresEmptyEntry(config.whitelist)
    /\ config.whitelist = <<StrEntry(<<"O", "O">>)>>
    /\ mergedConfig.whitelist = <<StrEntry(<<"O", "O">>), StrEntry(<<>>), StrEntry(<<SP, "O">>)>>
    /\ mergedConfig.failOnSpy
    /\ filteredIssues = <<>> /\ sent = <<>>

\* What the batches add to the statistics when each is processed alone, in
\* the order they were dispatched
RECURSIVE SumOfBatches(_)
SumOfBatches(batches) ==
    IF batches = <<>> THEN ZeroStats
    ELSE LET before == SumOfBatches(SubSeq(batches, 1, Len(batches) - 1))
             alone == StatsAfter(ZeroStats, batches[Len(batches)].issues)
         IN [errors |-> before.errors + alone.errors,
             warnings |-> before.warnings + alone.warnings,
             details |-> before.details \o alone.details]

\* C33: however the calls overlap, the counters are the sum over the batches
\* dispatched and details holds the entries of each batch side by side, the
\* batches in the order of their dispatch.
C33_StatsNotInterleaved == errorStats = SumOfBatches(sent)

\* C33 witness: two calls with different batches overlapped and their appends
\* settled in the opposite order, as the log file shows.
C33_Witness ==
    /\ Len(sent) = 2 /\ pending = <<>> /\ nFaults = 0
    /\ sent[1].logToFile /\ sent[2].logToFile
    /\ Len(sent[1].issues) = 1 /\ Len(sent[2].issues) = 2
    /\ logs["login.cy"] = LogLines(sent[2].issues) \o LogLines(sent[1].issues)
    /\ Len(errorStats.details) = 3

\* C34: in every state of the Aggregator errors + warnings is the number of
\* entries of details, and neither counter is negative.
C34_CountersMatchDetails ==
    /\ errorStats.errors + errorStats.warnings = Len(errorStats.details)
    /\ errorStats.errors >= 0
    /\ errorStats.warnings >= 0

\* C34 witness: after a reset, a batch with a warning and an info issue and a
\* legacy call have been counted.
C34_Witness ==
    /\ detailsId > 0 /\ legacyCalls = 1
    /\ IsSet(srvBatch) /\ Len(srvBatch[1].issues) = 2
    /\ Len(errorStats.details) = 3
    /\ \E i \in 1..3 : errorStats.details[i].type = "info"

\* The config objects of the open suites declared through describe, outermost
\* first
RECURSIVE WrappedConfigs(_)
WrappedConfigs(suites) ==
    IF suites = <<>> THEN <<>>
    ELSE (IF Head(suites).wrapped THEN <<Head(suites).config>> ELSE <<>>)
         \o WrappedConfigs(Tail(suites))

\* C35: while the file registers, the stack holds one entry per open suite
\* declared through describe, in the order they were opened, and the current
\* suite config is its top, or {} when it is empty; once registration is
\* complete the stack is empty.
C35_SuiteStackInvariant ==
    /\ regPhase = "registering" =>
          /\ describeConfigStack = WrappedConfigs(openSuites)
          /\ currentDescribeConfig =
                IF describeConfigStack = <<>> THEN NoDecl
                ELSE describeConfigStack[Len(describeConfigStack)]
    /\ regPhase = "running" => describeConfigStack = <<>>

\* C35 witness: a test has been registered and a suite opened through
\* describe.only is open inside a suite opened through describe: the stack
\* holds the outer suite's config alone.
C35_Witness ==
    /\ regPhase = "registering"
    /\ Len(openSuites) = 2
    /\ openSuites[1].wrapped /\ ~openSuites[2].wrapped
    /\ openSuites[1].config = Decl([EmptyPartial EXCEPT !.failOnSpy = Some(FALSE)])
    /\ openSuites[2].config = Decl([EmptyPartial EXCEPT !.throwOnWarning = Some(TRUE)])
    /\ describeConfigStack = <<openSuites[1].config>>
    /\ Len(tests) = 1

\* The calls of the current test that a stored spy recorded
RecordedInTest == {i \in MadeInTest : made[i].recorded}

\* C36: at the filter step the accumulated issues hold one issue per call a
\* stored spy recorded during the test, however window loads were mixed with
\* the calls: none twice, none missing.
C36_EachRecordedCallOnce ==
    IsSet(checked) =>
        /\ Len(checked[1]) = Cardinality(RecordedInTest)
        /\ \A i \in RecordedInTest : InIssues(i, checked[1])

\* C36 witness: of two recorded calls of the test the first was drained by a
\* window load and the second collected at the end from the spy set up by
\* that load.
C36_Witness ==
    /\ IsSet(checked) /\ pc \in {"task", "evaluate"}
    /\ Cardinality(RecordedInTest) = 2
    /\ Len(checked[1]) = 2
    /\ Len(consoleSpies["error"].calls) = 1

\* C37: nothing is appended to allIssues after the filter of the test has
\* read it: what the test accumulated is what its filter, report and failure
\* decision took into account.
C37_NoEventAfterFilter == IsSet(checked) => allIssues = checked[1]

\* The methods the global configuration names
GlobalMethods == {config.methodsToTrack[i] : i \in 1..Len(config.methodsToTrack)}

\* C38: whatever methodsToTrack the suite and the test declare, a setup
\* attaches spies to methods of the global configuration only (to all of them
\* when no spy operation fails), and the collection step adds the calls of
\* the spies of exactly those methods.
C38_ObservedMethodsAreGlobal ==
    [][ /\ (SetupAndCallBody \/ WindowLoad) =>
              /\ \A m \in Methods : consoleSpies'[m].live => m \in GlobalMethods
              /\ (nFaults' = nFaults /\ orphans = {}) =>
                    \A m \in GlobalMethods : consoleSpies'[m].live
        /\ CollectAndCheck =>
              LET recorded == RecordedCalls(config.methodsToTrack)
                  added == SubSeq(allIssues', Len(allIssues) + 1, Len(allIssues'))
              IN /\ IsPrefix(allIssues, allIssues')
                 /\ Len(added) = Len(recorded)
                 /\ \A i \in 1..Len(recorded) :
                       /\ added[i].type = recorded[i].type
                       /\ added[i].message = recorded[i].message
      ]_vars

\* C38 witness: the test declared methodsToTrack ['warn'] under a global
\* ['error']; the spy is on console.error, none is on console.warn, and the
\* recorded console.error call was collected.
C38_Witness ==
    /\ IsSet(checked)
    /\ config.methodsToTrack = <<"error">>
    /\ mergedConfig.methodsToTrack = <<"warn">>
    /\ consoleSpies["error"].live /\ ~consoleSpies["warn"].live
    /\ Len(consoleSpies["error"].calls) = 1
    /\ Len(checked[1]) = 1 /\ checked[1][1].type = "error"

\* C39: getErrorStats, setDebugMode, notifyCriticalError and
\* saveConsoleErrorToFile leave errors, warnings and details as they were;
\* setDebugMode changes nothing of the Aggregator but the debug flag; the
\* before:run hook leaves the debug flag as it was.
C39_AuxiliaryTasksFrame ==
    [][ /\ srvOp' \in {"getErrorStats", "setDebugMode", "notifyCriticalError",
                       "saveConsoleErrorToFile"}
              => errorStats' = errorStats
        /\ srvOp' = "setDebugMode" => UNCHANGED <<serverVars, pending, detailsId>>
        /\ srvOp' = "beforeRun" => debugMode' = debugMode
      ]_vars

\* C39 witness: after a legacy call was counted and the debug flag was set,
\* saveConsoleErrorToFile wrote a line and the statistics still show the one
\* error.
C39_Witness ==
    /\ srvOp = "saveConsoleErrorToFile" /\ nOps = 3
    /\ debugMode
    /\ errorStats.errors = 1 /\ Len(errorStats.details) = 1
    /\ Len(logs["login.cy"]) = 1

====
